---- MODULE Spec2Model ----
(***************************************************************************)
(* A model of the javaobj stream parser (JavaStreamParser), in its two     *)
(* variants javaobj/deserialize/core.py and javaobj/v2/core.py.            *)
(*                                                                         *)
(* The parser is a recursive-descent decoder.  Its call stack is the       *)
(* variable `stack`: one frame per active Python call, with the function   *)
(* name, the program position inside it and its local variables.  Python   *)
(* objects live in `heap` (an object is its index; 0 is None), so that     *)
(* identity and in-place mutation are kept.  The input is generated one    *)
(* read at a time: `stream` holds the bytes consumed so far and every read *)
(* action appends the bytes it reads, drawn from the alphabet of the input *)
(* family chosen in Init.                                                  *)
(***************************************************************************)
EXTENDS Integers, Sequences, FiniteSets, TLC

VARIABLES
    variant,         \* "deserialize" or "v2": which core.py is running
    family,          \* the input alphabet the stream is drawn from
    status,          \* "running", "done" (run returned) or "failed" (run raised)
    err,             \* the error run raised, "" if none
    stream,          \* the bytes consumed so far (fd.tell() = Len(stream))
    eof,             \* TRUE once a read hit the end of the input
    ntags,           \* number of tag bytes read so far
    stack,           \* the call stack
    ret,             \* the value returned by the call that returned last
    heap,            \* the Python objects created so far
    handles,         \* self.__handles
    handle_maps,     \* self.__handle_maps
    current_handle,  \* self.__current_handle
    contents,        \* the local `contents` of run
    allocs,          \* history: handles returned by _new_handle since the last _reset
    nresets,         \* history: number of _reset calls so far
    replaying,       \* TRUE while the other variant parses the same input again
    parsed,          \* what the first parse of this input left behind
    time             \* a java.time carrier and the bytes it is loaded from

vars == <<variant, family, status, err, stream, eof, ntags, stack, ret, heap,
          handles, handle_maps, current_handle, contents, allocs, nresets,
          replaying, parsed, time>>

-----------------------------------------------------------------------------
(* Bounds of the model *)

\* tag bytes in one input stream
MaxTags == 8
-----------------------------------------------------------------------------
(* Constants of the wire format *)

STREAM_MAGIC == 44269
STREAM_VERSION == 5
BASE_REFERENCE_IDX == 8257536

TC_NULL == 112
TC_REFERENCE == 113
TC_CLASSDESC == 114
TC_OBJECT == 115
TC_STRING == 116
TC_ARRAY == 117
TC_CLASS == 118
TC_BLOCKDATA == 119
TC_ENDBLOCKDATA == 120
TC_RESET == 121
TC_BLOCKDATALONG == 122
TC_EXCEPTION == 123
TC_LONGSTRING == 124
TC_PROXYCLASSDESC == 125
TC_ENUM == 126

SC_WRITE_METHOD == 1
SC_SERIALIZABLE == 2
SC_EXTERNALIZABLE == 4
SC_BLOCK_DATA == 8
SC_ENUM == 16

TYPE_BYTE == 66
TYPE_CHAR == 67
TYPE_DOUBLE == 68
TYPE_FLOAT == 70
TYPE_INTEGER == 73
TYPE_LONG == 74
TYPE_SHORT == 83
TYPE_BOOLEAN == 90
TYPE_OBJECT == 76
TYPE_ARRAY == 91

PRIMITIVE_TYPES ==
    {TYPE_BYTE, TYPE_CHAR, TYPE_DOUBLE, TYPE_FLOAT, TYPE_INTEGER, TYPE_LONG,
     TYPE_SHORT, TYPE_BOOLEAN}

\* the values FieldType(...) accepts
FieldTypes == PRIMITIVE_TYPES \cup {TYPE_OBJECT, TYPE_ARRAY}

\* the keys of self.__type_code_handlers
HandledTags ==
    {TC_OBJECT, TC_CLASS, TC_ARRAY, TC_STRING, TC_LONGSTRING, TC_ENUM,
     TC_CLASSDESC, TC_PROXYCLASSDESC, TC_REFERENCE, TC_NULL, TC_EXCEPTION,
     TC_BLOCKDATA, TC_BLOCKDATALONG}

-----------------------------------------------------------------------------
(* The primitive reader: big-endian decoding of the bytes read *)

read_ubyte(b) == b[1]
read_byte(b) == IF b[1] >= 128 THEN b[1] - 256 ELSE b[1]
read_ushort(b) == b[1] * 256 + b[2]
read_short(b) == IF b[1] >= 128 THEN read_ushort(b) - 65536 ELSE read_ushort(b)
read_int(b) ==
    (IF b[1] >= 128 THEN b[1] - 256 ELSE b[1]) * 16777216
        + b[2] * 65536 + b[3] * 256 + b[4]

\* a signed 64-bit value is kept as its 8 bytes: TLC's integers have 32 bits
long_negative(b) == b[1] >= 128
long_above_int(b) ==
    /\ b[1] < 128
    /\ \/ \E i \in 1..4 : b[i] # 0
       \/ b[5] >= 128
long_low(b) == read_int(<<b[5] % 128, b[6], b[7], b[8]>>)

\* the bytes of a value, for writing the streams of the scenarios
U8(v) == <<v % 256>>
U16(v) == <<(v \div 256) % 256, v % 256>>
I32(v) == <<(v \div 16777216) % 256, (v \div 65536) % 256, (v \div 256) % 256, v % 256>>
I64(v) == (IF v < 0 THEN <<255, 255, 255, 255>> ELSE <<0, 0, 0, 0>>) \o I32(v)
UTF(s) == U16(Len(s)) \o s

\* modified UTF-8 decoding, of the one-byte (ASCII) code points the streams use
decode_modified_utf8(data) == [i \in 1..Len(data) |-> data[i] % 128]

-----------------------------------------------------------------------------
(* Objects and frames *)

None == 0

\* a Python object of javaobj.deserialize.beans, with every attribute any
\* class has; `epoch` records the session (number of resets) it belongs to
Obj0 ==
    [kind |-> "", handle |-> -1, epoch |-> 0, is_exception |-> FALSE,
     value |-> <<>>,            \* JavaString.value, BlockData.data
     class_type |-> "", name |-> <<>>, desc_flags |-> 0, fields |-> <<>>,
     interfaces |-> <<>>, annotations |-> <<>>, super_class |-> None,
     enum_constants |-> {},
     classdesc |-> None,        \* JavaInstance, JavaClass, JavaArray, JavaEnum
     field_type |-> 0, content |-> <<>>,
     constant |-> None,         \* JavaEnum.value, a JavaString
     field_data |-> <<>>, inst_annotations |-> <<>>,
     carrier |-> "",            \* the Python class of an instance
     elements |-> <<>>,         \* the items of a JavaList (it is a Python list)
     pvalue |-> <<>>,           \* JavaPrimitiveClass.value: <<>> is None, else <<value>>
     entries |-> <<>>,          \* the items of a JavaMap (it is a Python dict)
     buckets |-> 0, size |-> 0, \* JavaLinkedHashMap.buckets, .size
     exception_object |-> None, stream_start |-> 0, stream_end |-> 0]

\* a frame of the call stack, with every local variable any function has
Frame0 ==
    [fn |-> "", pc |-> "", type_code |-> 0, block_data |-> FALSE, handle |-> -1,
     epoch |-> 0, cd |-> None, instance |-> None, name |-> <<>>, flags |-> 0,
     n |-> 0, i |-> 0, j |-> 0, fields |-> <<>>, field_type |-> 0,
     field_name |-> <<>>, contents |-> <<>>, classes |-> <<>>, values |-> <<>>,
     all_data |-> <<>>, annotations |-> <<>>, ann |-> <<>>, start |-> 0,
     key |-> None]

Top == stack[Len(stack)]
Pop(s) == SubSeq(s, 1, Len(s) - 1)
SetTop(s, f) == [s EXCEPT ![Len(s)] = f]
Call(s, f) == Append(s, f)

Running == status = "running" /\ stack # <<>>
At(fn, pc) == Running /\ Top.fn = fn /\ Top.pc = pc

IsHandle(h) == h \in DOMAIN handles

-----------------------------------------------------------------------------
(* The input alphabets.  A stream is any sequence of reads whose bytes are *)
(* drawn from the alphabet of its family, with a bounded number of tags.   *)

Variants == {"deserialize", "v2"}

\* "A", "B"
TextA == <<65>>
TextB == <<66>>
\* "a", "b", "c"
TextLowerA == <<97>>
TextLowerB == <<98>>
TextLowerC == <<99>>
\* "X", the name of a plain class
NameX == <<88>>

\* "value", the field a boxed primitive keeps its value in
NameValue == <<118, 97, 108, 117, 101>>
\* "[I", "[L": arrays of int and of objects
NameArrayI == <<91, 73>>
NameArrayL == <<91, 76>>
\* "[[": an array of arrays
NameArrayArray == <<91, 91>>
\* "java.util.ArrayList", "java.util.LinkedList"
NameArrayList == <<106, 97, 118, 97, 46, 117, 116, 105, 108, 46, 65, 114, 114, 97, 121, 76, 105, 115, 116>>
NameLinkedList == <<106, 97, 118, 97, 46, 117, 116, 105, 108, 46, 76, 105, 110, 107, 101, 100, 76, 105, 115, 116>>
\* "java.lang.Boolean", "java.lang.Integer", "java.util.Integer",
\* "java.lang.Long", "java.util.Long"
NameLangBoolean == <<106, 97, 118, 97, 46, 108, 97, 110, 103, 46, 66, 111, 111, 108, 101, 97, 110>>
NameLangInteger == <<106, 97, 118, 97, 46, 108, 97, 110, 103, 46, 73, 110, 116, 101, 103, 101, 114>>
NameUtilInteger == <<106, 97, 118, 97, 46, 117, 116, 105, 108, 46, 73, 110, 116, 101, 103, 101, 114>>
NameLangLong == <<106, 97, 118, 97, 46, 108, 97, 110, 103, 46, 76, 111, 110, 103>>
NameUtilLong == <<106, 97, 118, 97, 46, 117, 116, 105, 108, 46, 76, 111, 110, 103>>

\* "java.util.HashMap", "java.util.TreeMap", "java.util.LinkedHashMap"
NameHashMap == <<106, 97, 118, 97, 46, 117, 116, 105, 108, 46, 72, 97, 115, 104, 77, 97, 112>>
NameTreeMap == <<106, 97, 118, 97, 46, 117, 116, 105, 108, 46, 84, 114, 101, 101, 77, 97, 112>>
NameLinkedHashMap == <<106, 97, 118, 97, 46, 117, 116, 105, 108, 46, 76, 105, 110, 107, 101, 100, 72, 97, 115, 104, 77, 97, 112>>

\* the alphabet every family starts from.  The tag bytes are drawn per
\* position: top (the top-level loop of run), desc (where a class description
\* is read), ann (the annotations of a class), iann (the annotations in the
\* data of an instance), str (the type string of a field, the
\* name of an enum constant), val (an object or array value, the value of a
\* map entry), exc (the content of an exception frame), keys (the key of a
\* map entry).  truncate: the input may end inside a
\* content.
Family0 ==
    [top |-> {TC_NULL}, desc |-> {TC_NULL}, ann |-> {TC_ENDBLOCKDATA},
     iann |-> {TC_ENDBLOCKDATA},
     str |-> {TC_STRING}, val |-> {TC_NULL}, exc |-> {TC_NULL}, keys |-> {TC_NULL},
     texts |-> {TextA}, shorts |-> {FALSE}, truncate |-> FALSE,
     refs |-> {BASE_REFERENCE_IDX}, badlongs |-> {}, badsizes |-> {},
     names |-> {NameX}, flags |-> {SC_SERIALIZABLE}, nfields |-> {0},
     ftypes |-> {TYPE_INTEGER}, fnames |-> {TextA}, nifaces |-> {0},
     sizes |-> {0}, prims |-> {0}, transformers |-> <<>>, maxtags |-> 0]

Families ==
    << \* 1: strings, references, resets and block data at top level
       [Family0 EXCEPT
          !.top = {TC_NULL, TC_STRING, TC_LONGSTRING, TC_REFERENCE, TC_RESET,
                   TC_BLOCKDATA, TC_BLOCKDATALONG, TC_ENDBLOCKDATA, 0},
          !.texts = {TextA, TextB},
          !.shorts = {FALSE, TRUE},
          !.truncate = TRUE,
          !.refs = {BASE_REFERENCE_IDX - 1, BASE_REFERENCE_IDX, BASE_REFERENCE_IDX + 1},
          !.badlongs = {<<255, 255, 255, 255, 255, 255, 255, 255>>,
                        <<128, 0, 0, 0, 0, 0, 0, 0>>,
                        <<0, 0, 0, 0, 128, 0, 0, 0>>,
                        <<0, 0, 0, 1, 0, 0, 0, 0>>,
                        <<0, 0, 0, 0, 127, 255, 255, 255>>,
                        <<0, 0, 0, 0, 0, 1, 0, 0>>},
          !.badsizes = {-1},
          !.maxtags = MaxTags - 5],
       \* 2: class descriptors and class objects
       [Family0 EXCEPT
          !.top = {TC_CLASSDESC, TC_PROXYCLASSDESC, TC_CLASS, TC_REFERENCE},
          !.desc = {TC_NULL, TC_CLASSDESC, TC_REFERENCE, TC_STRING},
          !.ann = {TC_ENDBLOCKDATA, TC_STRING, TC_RESET},
          !.iann = {TC_ENDBLOCKDATA, TC_STRING, TC_RESET},
          !.str = {TC_STRING, TC_REFERENCE, TC_NULL},
          !.truncate = TRUE,
          !.nfields = {-1, 0, 1},
          !.ftypes = {TYPE_INTEGER, TYPE_OBJECT, 0},
          !.nifaces = {0, 1},
          !.maxtags = MaxTags - 4],
       \* 3: objects with object fields, annotations and super classes
       [Family0 EXCEPT
          !.top = {TC_OBJECT},
          !.desc = {TC_CLASSDESC, TC_NULL, TC_REFERENCE},
          !.ann = {TC_ENDBLOCKDATA, TC_STRING},
          !.iann = {TC_ENDBLOCKDATA, TC_STRING},
          !.str = {TC_STRING, TC_REFERENCE},
          !.val = {TC_NULL, TC_REFERENCE, TC_STRING, TC_OBJECT},
          !.nfields = {0, 1},
          !.ftypes = {TYPE_OBJECT},
          !.refs = {BASE_REFERENCE_IDX, BASE_REFERENCE_IDX + 2},
          !.maxtags = MaxTags],
       \* 4: resets inside the annotations of a class descriptor
       [Family0 EXCEPT
          !.top = {TC_STRING, TC_OBJECT},
          !.desc = {TC_CLASSDESC, TC_NULL},
          !.ann = {TC_ENDBLOCKDATA, TC_RESET},
          !.iann = {TC_ENDBLOCKDATA, TC_RESET},
          !.maxtags = MaxTags - 2],
       \* 5: enums
       [Family0 EXCEPT
          !.top = {TC_ENUM, TC_REFERENCE},
          !.desc = {TC_CLASSDESC, TC_REFERENCE, TC_NULL},
          !.str = {TC_STRING, TC_REFERENCE},
          !.texts = {TextA, TextB},
          !.flags = {SC_SERIALIZABLE + SC_ENUM},
          !.refs = {BASE_REFERENCE_IDX, BASE_REFERENCE_IDX + 1},
          !.maxtags = MaxTags],
       \* 6: arrays
       [Family0 EXCEPT
          !.top = {TC_ARRAY, TC_REFERENCE},
          !.desc = {TC_CLASSDESC, TC_NULL, TC_PROXYCLASSDESC, TC_REFERENCE},
          !.val = {TC_NULL, TC_REFERENCE, TC_ARRAY},
          !.names = {NameX, NameArrayI, NameArrayL},
          !.sizes = {-1, 0, 1, 2},
          !.prims = {0, 1},
          !.refs = {BASE_REFERENCE_IDX, BASE_REFERENCE_IDX + 1},
          !.truncate = TRUE,
          !.maxtags = MaxTags - 2],
       \* 7: exception frames
       [Family0 EXCEPT
          !.top = {TC_EXCEPTION, TC_OBJECT},
          !.exc = {TC_OBJECT, TC_NULL, TC_RESET, TC_EXCEPTION, TC_STRING},
          !.desc = {TC_CLASSDESC, TC_NULL},
          !.ann = {TC_ENDBLOCKDATA, TC_EXCEPTION},
          !.iann = {TC_ENDBLOCKDATA, TC_EXCEPTION},
          !.val = {TC_NULL, TC_EXCEPTION},
          !.nfields = {0, 1},
          !.ftypes = {TYPE_OBJECT},
          !.maxtags = MaxTags - 1],
       \* 8: the flags of a class and the data of its instances
       [Family0 EXCEPT
          !.top = {TC_OBJECT},
          !.desc = {TC_CLASSDESC, TC_NULL},
          !.ann = {TC_ENDBLOCKDATA, TC_BLOCKDATA, TC_REFERENCE},
          !.iann = {TC_ENDBLOCKDATA, TC_BLOCKDATA, TC_REFERENCE},
          !.refs = {BASE_REFERENCE_IDX + 1},
          !.flags = {0, SC_SERIALIZABLE, SC_SERIALIZABLE + SC_WRITE_METHOD,
                     SC_EXTERNALIZABLE, SC_EXTERNALIZABLE + SC_BLOCK_DATA,
                     SC_SERIALIZABLE + SC_EXTERNALIZABLE,
                     SC_SERIALIZABLE + SC_WRITE_METHOD + SC_ENUM},
          !.nfields = {0, 1},
          !.prims = {0, 1},
          !.maxtags = MaxTags - 2],
       \* 9: a LinkedHashMap written as block data
       [Family0 EXCEPT
          !.top = {TC_OBJECT},
          !.desc = {TC_CLASSDESC, TC_NULL},
          !.val = {TC_NULL, TC_EXCEPTION},
          !.exc = {TC_OBJECT},
          !.names = {NameLinkedHashMap, NameX},
          !.flags = {SC_EXTERNALIZABLE + SC_BLOCK_DATA, SC_SERIALIZABLE},
          !.sizes = {0, 1},
          !.transformers = <<"DefaultObjectTransformer">>,
          !.maxtags = MaxTags + 3],
       \* 10: lists, whose items are the annotations of their class
       [Family0 EXCEPT
          !.top = {TC_OBJECT},
          !.desc = {TC_CLASSDESC, TC_NULL},
          !.iann = {TC_ENDBLOCKDATA, TC_BLOCKDATA, TC_STRING},
          !.texts = {TextLowerA, TextLowerB, TextLowerC},
          !.names = {NameArrayList},
          !.flags = {SC_SERIALIZABLE + SC_WRITE_METHOD},
          !.transformers = <<"DefaultObjectTransformer">>,
          !.maxtags = MaxTags + 1],
       \* 11: lists whose super class is a list
       [Family0 EXCEPT
          !.top = {TC_OBJECT},
          !.desc = {TC_CLASSDESC, TC_NULL},
          !.iann = {TC_ENDBLOCKDATA, TC_STRING},
          !.texts = {TextLowerA},
          !.names = {NameArrayList, NameLinkedList},
          !.flags = {SC_SERIALIZABLE + SC_WRITE_METHOD},
          !.transformers = <<"DefaultObjectTransformer">>,
          !.maxtags = MaxTags + 2],
       \* 12: a transformer of the caller registered before the default one
       [Family0 EXCEPT
          !.top = {TC_OBJECT},
          !.desc = {TC_CLASSDESC, TC_NULL},
          !.names = {NameX, NameArrayList, NameLinkedList, NameLangInteger},
          !.transformers = <<"UserTransformer", "DefaultObjectTransformer">>,
          !.maxtags = MaxTags - 2],
       \* 13: the same two transformers in the other order
       [Family0 EXCEPT
          !.top = {TC_OBJECT},
          !.desc = {TC_CLASSDESC, TC_NULL},
          !.names = {NameX, NameArrayList, NameLinkedList, NameLangInteger},
          !.transformers = <<"DefaultObjectTransformer", "UserTransformer">>,
          !.maxtags = MaxTags - 2],
       \* 14: boxed primitive values
       [Family0 EXCEPT
          !.top = {TC_OBJECT},
          !.desc = {TC_CLASSDESC, TC_NULL},
          !.names = {NameLangBoolean, NameLangInteger, NameLangLong,
                     NameUtilInteger},
          !.nfields = {1},
          !.ftypes = {TYPE_BOOLEAN, TYPE_INTEGER},
          !.fnames = {NameValue},
          !.prims = {0, 1},
          !.transformers = <<"DefaultObjectTransformer">>,
          !.maxtags = MaxTags - 2],
       \* 15: descriptors with conflicting flags that no instance uses
       [Family0 EXCEPT
          !.top = {TC_CLASSDESC, TC_CLASS, TC_ARRAY, TC_ENUM, TC_RESET},
          !.desc = {TC_CLASSDESC, TC_NULL},
          !.names = {NameX, NameArrayI},
          !.flags = {SC_SERIALIZABLE + SC_EXTERNALIZABLE, SC_SERIALIZABLE},
          !.maxtags = MaxTags - 3],
       \* 16: block data and tags without a handler, at every position
       [Family0 EXCEPT
          !.top = {TC_OBJECT, TC_ARRAY, TC_EXCEPTION, TC_BLOCKDATA, TC_BLOCKDATALONG,
                   TC_ENDBLOCKDATA},
          !.desc = {TC_CLASSDESC, TC_NULL},
          !.val = {TC_BLOCKDATA, TC_BLOCKDATALONG, TC_NULL, TC_RESET, TC_ENDBLOCKDATA},
          !.exc = {TC_BLOCKDATA, TC_BLOCKDATALONG, TC_ENDBLOCKDATA},
          !.iann = {TC_ENDBLOCKDATA, TC_BLOCKDATA},
          !.names = {NameX, NameArrayL, NameArrayArray},
          !.flags = {SC_SERIALIZABLE, SC_SERIALIZABLE + SC_WRITE_METHOD},
          !.nfields = {0, 1},
          !.ftypes = {TYPE_OBJECT, TYPE_ARRAY},
          !.sizes = {0, 1},
          !.maxtags = MaxTags - 2],
       \* 17: a class and its super class, with fields and annotations each
       [Family0 EXCEPT
          !.top = {TC_OBJECT},
          !.desc = {TC_CLASSDESC, TC_NULL},
          !.flags = {SC_SERIALIZABLE, SC_SERIALIZABLE + SC_WRITE_METHOD},
          !.nfields = {2},
          !.ftypes = {TYPE_INTEGER, TYPE_BOOLEAN},
          !.prims = {1},
          !.maxtags = MaxTags - 1] >>

Fam == Families[family]

-----------------------------------------------------------------------------
(* Handle table *)

EmptyTable == [h \in {} |-> None]

\* handle tables that differ from the code: a counter that decreases, a
\* counter that skips, a binding that is lost, a reset that keeps counting
_new_handle_decreasing(cur) == [handle |-> cur, current |-> cur - 1]
_new_handle_skipping(cur) == [handle |-> cur, current |-> cur + 2]
_set_handle_dropped(tbl, handle, content) == tbl
_reset_keeping_counter(tbl, maps) ==
    [handles |-> [h \in {} |-> 0],
     handle_maps |-> IF DOMAIN tbl # {} THEN Append(maps, tbl) ELSE maps,
     current |-> BASE_REFERENCE_IDX + Cardinality(DOMAIN tbl)]

\* _new_handle: the handle returned and the new value of the counter
_new_handle(cur) == [handle |-> cur, current |-> cur + 1]

\* a table that takes every binding
_set_handle_never_raises(tbl, handle) == FALSE

\* _set_handle raises when the handle is already bound ...
_set_handle_raises(tbl, handle) == handle \in DOMAIN tbl
\* ... and binds it otherwise
_set_handle(tbl, handle, content) ==
    [h \in DOMAIN tbl \cup {handle} |-> IF h = handle THEN content ELSE tbl[h]]

\* a reset that restarts the counter and leaves the table as it is
_reset_counter_only(tbl, maps) ==
    [handles |-> tbl, handle_maps |-> maps, current |-> BASE_REFERENCE_IDX]

\* a reset that archives nothing
_reset_without_archive(tbl, maps) ==
    [handles |-> EmptyTable, handle_maps |-> maps, current |-> BASE_REFERENCE_IDX]

\* _reset: archive a copy of a non-empty table, clear it, restart the counter
\* a reset that differs from the code: the table itself is archived, not a
\* copy of it, so that clearing the table clears what was archived
_reset_archiving_alias(tbl, maps) ==
    [handles |-> EmptyTable,
     handle_maps |-> IF DOMAIN tbl # {} THEN Append(maps, EmptyTable) ELSE maps,
     current |-> BASE_REFERENCE_IDX]

_reset(tbl, maps) ==
    [handles |-> EmptyTable,
     handle_maps |-> IF DOMAIN tbl # {} THEN Append(maps, tbl) ELSE maps,
     current |-> BASE_REFERENCE_IDX]

\* the same two methods as javaobj/v2/core.py writes them
v2_new_handle(cur) == [handle |-> cur, current |-> cur + 1]

v2_reset(tbl, maps) ==
    [handles |-> EmptyTable,
     handle_maps |-> IF DOMAIN tbl # {} THEN Append(maps, tbl) ELSE maps,
     current |-> BASE_REFERENCE_IDX]

\* the method of the variant that is running
new_handle_of(v, cur) ==
    IF v = "v2" THEN v2_new_handle(cur) ELSE _new_handle(cur)
reset_of(v, tbl, maps) ==
    IF v = "v2" THEN v2_reset(tbl, maps) ELSE _reset(tbl, maps)

NH == new_handle_of(variant, current_handle)
Allocate ==
    /\ current_handle' = NH.current
    /\ allocs' = Append(allocs, NH.handle)

Reset ==
    LET r == reset_of(variant, handles, handle_maps) IN
    /\ handles' = r.handles
    /\ handle_maps' = r.handle_maps
    /\ current_handle' = r.current
    /\ allocs' = <<>>
    /\ nresets' = nresets + 1

-----------------------------------------------------------------------------
(* Shapes shared by the actions *)

cfgv == <<variant, family, replaying, parsed, time>>
iov == <<stream, eof, ntags>>
tblv == <<handles, handle_maps, current_handle, allocs, nresets>>

\* the read of the bytes b, k of them tag bytes
Reads(b, k) ==
    /\ stream' = stream \o b
    /\ ntags' = ntags + k
    /\ eof' = eof

\* the input may go on: it has not ended
MoreInput == ~eof
\* the input may go on with a tag byte
MoreTags == ~eof /\ ntags < Fam.maxtags

\* run raises e
Fail(e) ==
    /\ status' = "failed"
    /\ err' = e
    /\ UNCHANGED <<cfgv, stack, ret, contents>>

\* a read finds the input ended: the reader raises EOFError; the input may
\* end anywhere when the family says so, and ends once its tags are spent
FailEOF ==
    /\ eof \/ Fam.truncate \/ ntags >= Fam.maxtags
    /\ Fail("EOFError")
    /\ eof' = TRUE
    /\ UNCHANGED <<stream, ntags>>

\* the call on top of the stack returns v
Return(v) ==
    /\ stack' = Pop(stack)
    /\ ret' = v

\* heap after creating object o, and the new object
NewId == Len(heap) + 1

\* raise ExceptionRead(obj): unwind to the innermost _read_content, which
\* returns obj; with no such frame the exception leaves run
CatchingFrames(s) == {k \in 1..Len(s) : s[k].fn = "_read_content"}
RaiseExceptionRead(obj) ==
    IF CatchingFrames(stack) = {}
    THEN /\ status' = "failed"
         /\ err' = "ExceptionRead"
         /\ UNCHANGED <<stack, ret>>
    ELSE LET k == CHOOSE x \in CatchingFrames(stack) :
                      \A y \in CatchingFrames(stack) : y <= x
         IN /\ stack' = SubSeq(stack, 1, k - 1)
            /\ ret' = obj
            /\ UNCHANGED <<status, err>>

IsException(v) == v # None /\ heap[v].is_exception

-----------------------------------------------------------------------------
(* run *)

\* no parse of the input has ended yet
NoRun ==
    [status |-> "none", err |-> "", stream |-> <<>>, eof |-> FALSE,
     contents |-> <<>>, heap |-> <<>>, handles |-> EmptyTable,
     handle_maps |-> <<>>, current_handle |-> BASE_REFERENCE_IDX,
     allocs |-> <<>>, nresets |-> 0]

\* a carrier of java.time.Ser as its constructor leaves it (<<>> is None),
\* with the bytes still to decode and the place of the decoding
NoTime ==
    [pc |-> "", type |-> -1, data |-> <<>>, raised |-> "",
     hour |-> <<>>, minute |-> <<>>, second |-> <<>>, nano |-> <<>>,
     offset |-> <<>>]

Init ==
    /\ variant \in Variants
    /\ family \in 1..Len(Families)
    /\ status = "running"
    /\ err = ""
    /\ stream = <<>>
    /\ eof = FALSE
    /\ ntags = 0
    /\ stack = <<[Frame0 EXCEPT !.fn = "run", !.pc = "magic"]>>
    /\ ret = None
    /\ heap = <<>>
    /\ handles = EmptyTable
    /\ handle_maps = <<>>
    /\ current_handle = BASE_REFERENCE_IDX
    /\ contents = <<>>
    /\ allocs = <<>>
    /\ nresets = 0
    /\ replaying = FALSE
    /\ parsed = NoRun
    /\ time = NoTime

\* a header test that differs from the code: every magic is accepted
magic_accepted(magic) == FALSE

\* run, line 86: magic != constants.STREAM_MAGIC
invalid_magic(magic) == magic # STREAM_MAGIC

\* run, line 92: version != constants.STREAM_VERSION
invalid_version(version) == version # STREAM_VERSION

\* run, lines 85-88: the magic
RunMagic ==
    /\ At("run", "magic")
    /\ \/ FailEOF /\ UNCHANGED <<heap, tblv>>
       \/ \E b \in {U16(STREAM_MAGIC), U16(STREAM_MAGIC + 1)} :
            /\ MoreInput
            /\ Reads(b, 0)
            /\ IF invalid_magic(read_ushort(b))
               THEN Fail("InvalidMagic")
               ELSE /\ stack' = SetTop(stack, [Top EXCEPT !.pc = "version"])
                    /\ UNCHANGED <<cfgv, status, err, ret, contents>>
            /\ UNCHANGED <<heap, tblv>>

\* run, lines 90-96: the version, then the first _reset
RunVersion ==
    /\ At("run", "version")
    /\ \/ FailEOF /\ UNCHANGED <<heap, tblv>>
       \/ \E b \in {U16(STREAM_VERSION), U16(STREAM_VERSION + 1)} :
            /\ MoreInput
            /\ Reads(b, 0)
            /\ IF invalid_version(read_ushort(b))
               THEN Fail("InvalidVersion") /\ UNCHANGED tblv
               ELSE /\ stack' = SetTop(stack, [Top EXCEPT !.pc = "loop"])
                    /\ Reset
                    /\ UNCHANGED <<cfgv, status, err, ret, contents>>
            /\ UNCHANGED heap

\* a loop that goes on to the next iteration when the input has ended
end_of_input_continues(raised) == FALSE

\* run, lines 103-107: the EOFError of the read of the tag breaks the loop
end_of_input_breaks(raised) == raised = "EOFError"

\* run, lines 100-107 and 128-136: the input has ended, run returns
RunEnd ==
    /\ At("run", "loop")
    /\ eof' = TRUE
    /\ IF end_of_input_breaks("EOFError")
       THEN /\ status' = "done"
            /\ stack' = <<>>
            /\ handle_maps' =
                  IF DOMAIN handles # {} THEN Append(handle_maps, handles)
                  ELSE handle_maps
       ELSE UNCHANGED <<status, stack, handle_maps>>
    /\ UNCHANGED <<cfgv, err, stream, ntags, ret, heap, handles, current_handle,
                   contents, allocs, nresets>>

\* run, lines 100-114: the next tag byte; n counts the content items begun
RunLoop ==
    /\ At("run", "loop")
    /\ MoreTags
    /\ \E t \in Fam.top :
         /\ Reads(U8(t), 1)
         /\ IF read_byte(U8(t)) = TC_RESET
            THEN /\ Reset
                 /\ UNCHANGED stack
            ELSE /\ stack' = Call(SetTop(stack, [Top EXCEPT !.pc = "after",
                                                            !.start = Len(stream),
                                                            !.n = Top.n + 1]),
                                  [Frame0 EXCEPT !.fn = "_read_content", !.pc = "start",
                                                 !.type_code = read_byte(U8(t)),
                                                 !.block_data = TRUE])
                 /\ UNCHANGED tblv
    /\ UNCHANGED <<cfgv, status, err, ret, heap, contents>>

\* a capture that differs from the code: it starts after the tag byte
exception_state_after_tag(exception_object, start, end) ==
    [Obj0 EXCEPT !.kind = "ExceptionState",
                 !.exception_object = exception_object,
                 !.stream_start = start + 1,
                 !.stream_end = end]

\* run, lines 116-124: ExceptionState(parsed_content, stream_data), where
\* stream_data is the input from offset start up to offset end; the seek
\* and the read of end - start bytes leave the reader at end
exception_state(exception_object, start, end) ==
    [Obj0 EXCEPT !.kind = "ExceptionState",
                 !.exception_object = exception_object,
                 !.stream_start = start,
                 !.stream_end = start + (end - start)]

\* an append that differs from the code: a null content is left out
contents_append_skipping_null(contents_, parsed_content) ==
    IF parsed_content = None THEN contents_ ELSE Append(contents_, parsed_content)

\* run, line 126: contents.append(parsed_content)
contents_append(contents_, parsed_content) == Append(contents_, parsed_content)

\* run, lines 115-126: wrap an exception object, append the content
RunAfter ==
    /\ At("run", "after")
    /\ IF IsException(ret)
       THEN /\ heap' = Append(heap, exception_state(ret, Top.start, Len(stream)))
            /\ contents' = contents_append(contents, NewId)
       ELSE /\ contents' = contents_append(contents, ret)
            /\ UNCHANGED heap
    /\ stack' = SetTop(stack, [Top EXCEPT !.pc = "loop"])
    /\ UNCHANGED <<cfgv, status, err, iov, ret, tblv>>

-----------------------------------------------------------------------------
(* _read_content *)

HandlerOf(type_code) ==
    CASE type_code = TC_OBJECT -> "_do_object"
      [] type_code = TC_CLASS -> "_do_class"
      [] type_code = TC_ARRAY -> "_do_array"
      [] type_code \in {TC_STRING, TC_LONGSTRING} -> "_read_new_string"
      [] type_code = TC_ENUM -> "_do_enum"
      [] type_code \in {TC_CLASSDESC, TC_PROXYCLASSDESC} -> "_do_classdesc"
      [] type_code = TC_REFERENCE -> "_do_reference"
      [] type_code = TC_NULL -> "_do_null"
      [] type_code = TC_EXCEPTION -> "_do_exception"
      [] type_code \in {TC_BLOCKDATA, TC_BLOCKDATALONG} -> "_do_block_data"

\* a test that differs from the code: block data is accepted everywhere
block_data_never_rejected(block_data, type_code) == FALSE

\* _read_content, lines 241-244: block data where it is not allowed
block_data_rejected(block_data, type_code) ==
    ~block_data /\ type_code \in {TC_BLOCKDATA, TC_BLOCKDATALONG}

\* a lookup that differs from the code: TC_NULL has no handler
unknown_tag_with_null(type_code) == type_code \notin (HandledTags \ {TC_NULL})

\* _read_content, lines 247-250: self.__type_code_handlers[type_code] raises
\* KeyError
unknown_tag(type_code) == type_code \notin HandledTags

\* _read_content, lines 241-253: the dispatch on the tag
ReadContent ==
    /\ At("_read_content", "start")
    /\ IF block_data_rejected(Top.block_data, Top.type_code)
       THEN Fail("UnexpectedBlockData")
       ELSE IF unknown_tag(Top.type_code)
       THEN Fail("UnknownTag")
       ELSE /\ stack' = Call(SetTop(stack, [Top EXCEPT !.pc = "ret"]),
                             [Frame0 EXCEPT !.fn = HandlerOf(Top.type_code),
                                            !.pc = "start",
                                            !.type_code = Top.type_code])
            /\ UNCHANGED <<cfgv, status, err, ret, contents>>
    /\ UNCHANGED <<iov, heap, tblv>>

\* _read_content, line 253: the handler returned, its value is returned
ReadContentReturn ==
    /\ At("_read_content", "ret")
    /\ Return(ret)
    /\ UNCHANGED <<cfgv, status, err, iov, heap, contents, tblv>>

\* _do_null, line 233
DoNull ==
    /\ At("_do_null", "start")
    /\ Return(None)
    /\ UNCHANGED <<cfgv, status, err, iov, heap, contents, tblv>>

-----------------------------------------------------------------------------
(* _do_reference *)

\* _do_reference, line 543: the handle is read
DoReferenceRead ==
    /\ At("_do_reference", "start")
    /\ \/ FailEOF
       \/ \E h \in Fam.refs :
            /\ MoreInput
            /\ Reads(I32(h), 0)
            /\ stack' = SetTop(stack, [Top EXCEPT !.pc = "lookup",
                                                  !.handle = read_int(I32(h))])
            /\ UNCHANGED <<cfgv, status, err, ret, contents>>
    /\ UNCHANGED <<heap, tblv>>

\* a lookup that differs from the code: it returns None
_do_reference_none(tbl, handle) == 0

\* the value _do_reference returns for a bound handle
_do_reference(tbl, handle) == tbl[handle]

\* _do_reference, lines 544-547: the lookup
\* a lookup that falls back on the archived tables, the latest first
RECURSIVE live_handles_and_archived(_, _)
live_handles_and_archived(tbl, maps) ==
    IF maps = <<>> THEN tbl
    ELSE tbl @@ live_handles_and_archived(maps[Len(maps)], SubSeq(maps, 1, Len(maps) - 1))

\* line 545: the table a reference is looked up in is the live one
live_handles(tbl, maps) == tbl

\* _do_reference, lines 544-547
DoReference ==
    /\ At("_do_reference", "lookup")
    /\ IF Top.handle \in DOMAIN live_handles(handles, handle_maps)
       THEN /\ Return(_do_reference(live_handles(handles, handle_maps), Top.handle))
            /\ UNCHANGED <<cfgv, status, err, contents>>
       ELSE Fail("UnknownHandle")
    /\ UNCHANGED <<iov, heap, tblv>>

-----------------------------------------------------------------------------
(* _read_new_string *)

JavaString(handle, data) ==
    [Obj0 EXCEPT !.kind = "JavaString", !.handle = handle, !.epoch = nresets,
                 !.value = decode_modified_utf8(data)]

\* a type check that every value passes
is_instance_of_any(o, class) == TRUE

\* lines 264, 366: isinstance(previous, JavaString), isinstance(previous,
\* JavaClassDesc); neither class has a subclass
is_instance(o, class) == o.kind = class

\* a length check that lets every long through
invalid_string_length_never(length) == FALSE

\* line 276: a long length below zero or above 2147483647 is refused
invalid_string_length(length) == long_negative(length) \/ long_above_int(length)

\* lines 271-287: once the length is read (a ushort, or a long for
\* TC_LONGSTRING), the `length` bytes are read (fewer when the input ends:
\* fd.read does not raise), the string is created, bound and returned
StringBody(lenbytes, length, t) ==
    LET data == SubSeq(t, 1, IF Len(t) < length THEN Len(t) ELSE length)
    IN  /\ stream' = stream \o lenbytes \o data
        /\ eof' = (Len(data) < length)
        /\ UNCHANGED ntags
        /\ Allocate
        /\ UNCHANGED <<handle_maps, nresets>>
        /\ IF _set_handle_raises(handles, NH.handle)
           THEN Fail("HandleCollision") /\ UNCHANGED <<heap, handles>>
           ELSE /\ heap' = Append(heap, JavaString(NH.handle, data))
                /\ handles' = _set_handle(handles, NH.handle, NewId)
                /\ Return(NewId)
                /\ UNCHANGED <<cfgv, status, err, contents>>

\* the lengths written ahead of the text t: its own, or one more
Lengths(t) == {Len(t) + (IF short THEN 1 ELSE 0) : short \in Fam.shorts}

\* _read_new_string, lines 261-287
ReadNewString ==
    /\ At("_read_new_string", "start")
    /\ \/ /\ Top.type_code = TC_REFERENCE
          /\ stack' = Call(SetTop(stack, [Top EXCEPT !.pc = "ref"]),
                           [Frame0 EXCEPT !.fn = "_do_reference", !.pc = "start"])
          /\ UNCHANGED <<cfgv, status, err, iov, ret, heap, contents, tblv>>
       \/ /\ Top.type_code = TC_STRING
          /\ MoreInput
          /\ \E t \in Fam.texts : \E n \in Lengths(t) :
               StringBody(U16(n), read_ushort(U16(n)), t)
       \/ /\ Top.type_code = TC_LONGSTRING
          /\ MoreInput
          /\ \E t \in Fam.texts : \E b \in {I64(n) : n \in Lengths(t)} \cup Fam.badlongs :
               IF invalid_string_length(b)
               THEN /\ Reads(b, 0)
                    /\ Allocate
                    /\ Fail("InvalidStringLength")
                    /\ UNCHANGED <<heap, handles, handle_maps, nresets>>
               ELSE StringBody(b, long_low(b), t)
       \/ /\ Top.type_code \in {TC_STRING, TC_LONGSTRING}
          /\ Allocate
          /\ FailEOF
          /\ UNCHANGED <<heap, handles, handle_maps, nresets>>
       \/ /\ Top.type_code \notin {TC_REFERENCE, TC_STRING, TC_LONGSTRING}
          /\ Allocate
          /\ Fail("UnboundLocalError")
          /\ UNCHANGED <<iov, heap, handles, handle_maps, nresets>>

\* _read_new_string, lines 263-266: the referenced value must be a string
ReadNewStringRef ==
    /\ At("_read_new_string", "ref")
    /\ IF is_instance(heap[ret], "JavaString")
       THEN Return(ret) /\ UNCHANGED <<cfgv, status, err, contents>>
       ELSE Fail("ReferenceTypeMismatch")
    /\ UNCHANGED <<iov, heap, tblv>>

-----------------------------------------------------------------------------
(* _do_block_data *)

BlockData(data) == [Obj0 EXCEPT !.kind = "BlockData", !.value = data]

\* _do_block_data, lines 633-645: the size (a ubyte, or an int for
\* TC_BLOCKDATALONG) and the block are read (fewer bytes when the input ends)
BlockBody(long) ==
    \E t \in Fam.texts, short \in Fam.shorts :
        LET n == Len(t) + (IF short THEN 1 ELSE 0)
            lenbytes == IF long THEN I32(n) ELSE U8(n)
            size == IF long THEN read_int(lenbytes) ELSE read_ubyte(lenbytes)
            data == SubSeq(t, 1, IF Len(t) < size THEN Len(t) ELSE size)
        IN  /\ size >= 0
            /\ stream' = stream \o lenbytes \o data
            /\ eof' = (Len(data) < size)
            /\ UNCHANGED ntags
            /\ heap' = Append(heap, BlockData(data))
            /\ Return(NewId)
            /\ UNCHANGED <<cfgv, status, err, contents>>

DoBlockData ==
    /\ At("_do_block_data", "start")
    /\ \/ /\ Top.type_code = TC_BLOCKDATA
          /\ MoreInput
          /\ BlockBody(FALSE)
       \/ /\ Top.type_code = TC_BLOCKDATALONG
          /\ MoreInput
          /\ BlockBody(TRUE)
       \/ /\ Top.type_code = TC_BLOCKDATALONG
          /\ MoreInput
          /\ \E n \in Fam.badsizes :
               /\ Reads(I32(n), 0)
               /\ read_int(I32(n)) < 0
               /\ Fail("InvalidBlockDataSize")
               /\ UNCHANGED heap
       \/ FailEOF /\ UNCHANGED heap
    /\ UNCHANGED tblv

-----------------------------------------------------------------------------
(* _do_classdesc, _read_classdesc, _read_class_annotations *)

\* flags & bit
HasFlag(flags, bit) == (flags \div bit) % 2 = 1

JavaField(type, name, class_name, str_type_code) ==
    [type |-> type, name |-> name, class_name |-> class_name,
     str_type_code |-> str_type_code]

\* the JavaClassDesc built from the locals of _do_classdesc, lines 341-346
\* and 377-379
JavaClassDesc(f, class_type) ==
    [Obj0 EXCEPT !.kind = "JavaClassDesc", !.class_type = class_type,
                 !.name = f.name, !.handle = f.handle, !.epoch = f.epoch,
                 !.desc_flags = f.flags, !.fields = f.fields,
                 !.interfaces = f.contents]

\* lines 341-347 and 377-380: the bean is created and the annotations are read
BeginAnnotations(f, class_type) ==
    /\ heap' = Append(heap, JavaClassDesc(f, class_type))
    /\ stack' = Call(SetTop(stack, [f EXCEPT !.pc = "ann", !.cd = NewId]),
                     [Frame0 EXCEPT !.fn = "_read_class_annotations", !.pc = "loop"])
    /\ UNCHANGED <<cfgv, status, err, ret, contents>>

\* _read_classdesc, lines 293-294: the tag is read, _do_classdesc is called
\* and its value returned
ReadClassdesc ==
    /\ At("_read_classdesc", "start")
    /\ \/ FailEOF
       \/ /\ MoreTags
          /\ \E t \in Fam.desc :
               /\ Reads(U8(t), 1)
               /\ stack' = SetTop(stack, [Frame0 EXCEPT !.fn = "_do_classdesc",
                                                        !.pc = "start",
                                                        !.type_code = read_byte(U8(t))])
               /\ UNCHANGED <<cfgv, status, err, ret, contents>>
    /\ UNCHANGED <<heap, tblv>>

\* _do_classdesc, lines 304-312, 353-387: the dispatch on the tag; for
\* TC_CLASSDESC the name, the serial version, the flags and the field count
DoClassdesc ==
    /\ At("_do_classdesc", "start")
    /\ \/ /\ Top.type_code = TC_CLASSDESC
          /\ MoreInput
          /\ \E nm \in Fam.names, fl \in Fam.flags, nf \in Fam.nfields :
               LET desc_flags == read_byte(U8(fl))
                   nb_fields == read_short(U16(nf))
                   f == [Top EXCEPT !.name = decode_modified_utf8(nm),
                                    !.handle = NH.handle, !.epoch = nresets,
                                    !.flags = desc_flags, !.n = nb_fields]
               IN  /\ Reads(UTF(nm) \o I64(0) \o U8(fl) \o U16(nf), 0)
                   /\ Allocate
                   /\ UNCHANGED <<handles, handle_maps, nresets>>
                   /\ IF nb_fields < 0
                      THEN Fail("InvalidFieldCount") /\ UNCHANGED heap
                      ELSE IF nb_fields = 0
                      THEN BeginAnnotations(f, "NORMALCLASS")
                      ELSE /\ stack' = SetTop(stack, [f EXCEPT !.pc = "field"])
                           /\ UNCHANGED <<cfgv, status, err, ret, heap, contents>>
       \/ /\ Top.type_code = TC_CLASSDESC
          /\ FailEOF
          /\ UNCHANGED <<heap, tblv>>
       \/ /\ Top.type_code = TC_CLASSDESC
          /\ MoreInput
          /\ Fam.truncate
          /\ \E nm \in Fam.names :
               /\ Reads(UTF(nm) \o I64(0), 0)
               /\ Allocate
               /\ Fail("EOFError")
               /\ UNCHANGED <<heap, handles, handle_maps, nresets>>
       \/ /\ Top.type_code = TC_NULL
          /\ Return(None)
          /\ UNCHANGED <<cfgv, status, err, iov, heap, contents, tblv>>
       \/ /\ Top.type_code = TC_REFERENCE
          /\ stack' = Call(SetTop(stack, [Top EXCEPT !.pc = "ref"]),
                           [Frame0 EXCEPT !.fn = "_do_reference", !.pc = "start"])
          /\ UNCHANGED <<cfgv, status, err, iov, ret, heap, contents, tblv>>
       \/ /\ Top.type_code = TC_PROXYCLASSDESC
          /\ MoreInput
          /\ \E ni \in Fam.nifaces, nm \in Fam.names :
               LET nb_interfaces == read_int(I32(ni))
                   interfaces == IF nb_interfaces > 0
                                 THEN <<decode_modified_utf8(nm)>> ELSE <<>>
                   f == [Top EXCEPT !.handle = NH.handle, !.epoch = nresets,
                                    !.contents = interfaces]
               IN  /\ nb_interfaces <= 1
                   /\ Reads(I32(ni) \o (IF nb_interfaces > 0 THEN UTF(nm) ELSE <<>>), 0)
                   /\ Allocate
                   /\ UNCHANGED <<handles, handle_maps, nresets>>
                   /\ BeginAnnotations(f, "PROXYCLASS")
       \/ /\ Top.type_code = TC_PROXYCLASSDESC
          /\ Allocate
          /\ FailEOF
          /\ UNCHANGED <<heap, handles, handle_maps, nresets>>
       \/ /\ Top.type_code \notin
                {TC_CLASSDESC, TC_NULL, TC_REFERENCE, TC_PROXYCLASSDESC}
          /\ Fail("UnexpectedTag")
          /\ UNCHANGED <<iov, heap, tblv>>

\* the fields read so far with one more
WithField(f, field) == [f EXCEPT !.fields = Append(f.fields, field)]

\* lines 315-347: after a field, the next field or the bean and its annotations
AfterField(f) ==
    IF Len(f.fields) = f.n
    THEN BeginAnnotations(f, "NORMALCLASS")
    ELSE /\ stack' = SetTop(stack, [f EXCEPT !.pc = "field"])
         /\ UNCHANGED <<cfgv, status, err, ret, heap, contents>>

\* _do_classdesc, lines 315-338: one declared field
DoClassdescField ==
    /\ At("_do_classdesc", "field")
    /\ \/ FailEOF /\ UNCHANGED heap
       \/ /\ MoreInput
          /\ \E ft \in Fam.ftypes \cap PRIMITIVE_TYPES, nm \in Fam.fnames :
               /\ Reads(U8(ft) \o UTF(nm), 0)
               /\ AfterField(WithField(Top,
                     JavaField(read_byte(U8(ft)), decode_modified_utf8(nm), None, 0)))
       \/ /\ MoreTags
          /\ \E ft \in Fam.ftypes \cap {TYPE_OBJECT, TYPE_ARRAY},
                nm \in Fam.fnames, t \in Fam.str :
               /\ Reads(U8(ft) \o UTF(nm) \o U8(t), 1)
               /\ stack' = Call(SetTop(stack, [Top EXCEPT !.pc = "fieldstr",
                                    !.field_type = read_byte(U8(ft)),
                                    !.field_name = decode_modified_utf8(nm),
                                    !.type_code = read_byte(U8(t))]),
                                [Frame0 EXCEPT !.fn = "_read_new_string",
                                               !.pc = "start",
                                               !.type_code = read_byte(U8(t))])
               /\ UNCHANGED <<cfgv, status, err, ret, heap, contents>>
       \/ /\ MoreInput
          /\ \E ft \in Fam.ftypes \ FieldTypes :
               /\ Reads(U8(ft), 0)
               /\ Fail("InvalidFieldType")
               /\ UNCHANGED heap
    /\ UNCHANGED tblv

\* _do_classdesc, lines 329-334: the type string of an object or array field
DoClassdescFieldStr ==
    /\ At("_do_classdesc", "fieldstr")
    /\ AfterField(WithField([Top EXCEPT !.type_code = TC_CLASSDESC],
           JavaField(Top.field_type, Top.field_name, ret, Top.type_code)))
    /\ UNCHANGED <<iov, tblv>>

\* _do_classdesc, lines 347-348, 380-381: the annotations are stored, the
\* super class is read
DoClassdescAnn ==
    /\ At("_do_classdesc", "ann")
    /\ heap' = [heap EXCEPT ![Top.cd].annotations = Top.ann]
    /\ stack' = Call(SetTop(stack, [Top EXCEPT !.pc = "super"]),
                     [Frame0 EXCEPT !.fn = "_read_classdesc", !.pc = "start"])
    /\ UNCHANGED <<cfgv, status, err, iov, ret, contents, tblv>>

\* _do_classdesc, lines 348-352, 381-385: the super class is stored, the
\* descriptor is bound and returned
DoClassdescSuper ==
    /\ At("_do_classdesc", "super")
    /\ IF _set_handle_raises(handles, Top.handle)
       THEN /\ Fail("HandleCollision")
            /\ heap' = [heap EXCEPT ![Top.cd].super_class = ret]
            /\ UNCHANGED handles
       ELSE /\ heap' = [heap EXCEPT ![Top.cd].super_class = ret]
            /\ handles' = _set_handle(handles, Top.handle, Top.cd)
            /\ Return(Top.cd)
            /\ UNCHANGED <<cfgv, status, err, contents>>
    /\ UNCHANGED <<iov, handle_maps, current_handle, allocs, nresets>>

\* _do_classdesc, lines 365-368: the referenced value must be a descriptor
DoClassdescRef ==
    /\ At("_do_classdesc", "ref")
    /\ IF is_instance(heap[ret], "JavaClassDesc")
       THEN Return(ret) /\ UNCHANGED <<cfgv, status, err, contents>>
       ELSE Fail("ReferenceTypeMismatch")
    /\ UNCHANGED <<iov, heap, tblv>>

\* _read_class_annotations, lines 394-404: the next tag of the list
ReadClassAnnotations ==
    /\ At("_read_class_annotations", "loop")
    /\ \/ FailEOF /\ UNCHANGED tblv
       \/ /\ MoreTags
          /\ \E t \in IF stack[Len(stack) - 1].fn = "_read_class_data"
                       THEN Fam.iann ELSE Fam.ann :
               /\ Reads(U8(t), 1)
               /\ IF read_byte(U8(t)) = TC_ENDBLOCKDATA
                  THEN /\ stack' = SetTop(Pop(stack),
                              [stack[Len(stack) - 1] EXCEPT !.ann = Top.contents])
                       /\ UNCHANGED tblv
                  ELSE IF read_byte(U8(t)) = TC_RESET
                  THEN /\ Reset
                       /\ UNCHANGED stack
                  ELSE /\ stack' = Call(SetTop(stack, [Top EXCEPT !.pc = "item"]),
                              [Frame0 EXCEPT !.fn = "_read_content", !.pc = "start",
                                             !.type_code = read_byte(U8(t)),
                                             !.block_data = TRUE])
                       /\ UNCHANGED tblv
               /\ UNCHANGED <<cfgv, status, err, ret, contents>>
    /\ UNCHANGED heap

\* _read_class_annotations, lines 405-408: an exception object is re-raised,
\* any other content is appended
ReadClassAnnotationsItem ==
    /\ At("_read_class_annotations", "item")
    /\ IF IsException(ret)
       THEN RaiseExceptionRead(ret)
       ELSE /\ stack' = SetTop(stack, [Top EXCEPT !.pc = "loop",
                                   !.contents = Append(Top.contents, ret)])
            /\ UNCHANGED <<status, err, ret>>
    /\ UNCHANGED <<cfgv, iov, heap, contents, tblv>>

-----------------------------------------------------------------------------
(* The object transformers (javaobj/transformers.py) *)

\* DefaultObjectTransformer._type_mapper, lines 398-409, for the carriers
\* JavaBool, JavaInt, JavaList, JavaMap and JavaLinkedHashMap
TypeMapper(name) ==
    CASE name = NameLangBoolean -> "JavaBool"
      [] name \in {NameUtilInteger, NameUtilLong} -> "JavaInt"
      [] name \in {NameArrayList, NameLinkedList} -> "JavaList"
      [] name \in {NameHashMap, NameTreeMap} -> "JavaMap"
      [] name = NameLinkedHashMap -> "JavaLinkedHashMap"
      [] OTHER -> ""

\* a transformer of the caller: it knows the classes "X" and
\* "java.util.ArrayList"
UserMapper(name) ==
    IF name \in {NameX, NameArrayList} THEN "UserCarrier" ELSE ""

\* transformer.create(class_desc): the class of the carrier, "" for None
TransformerCreate(transformer, class_desc) ==
    CASE transformer = "DefaultObjectTransformer" -> TypeMapper(heap[class_desc].name)
      [] transformer = "UserTransformer" -> UserMapper(heap[class_desc].name)
      [] OTHER -> ""

\* a choice of the carrier that differs from the code: the last transformer
\* that knows the class creates it
_create_instance_by_last(transformers, class_desc) ==
    LET hits == {k \in 1..Len(transformers) :
                    TransformerCreate(transformers[k], class_desc) # ""}
        last == CHOOSE k \in hits : \A x \in hits : k >= x
    IN  [Obj0 EXCEPT !.kind = "JavaInstance",
                     !.carrier = IF hits = {} THEN "JavaInstance"
                                 ELSE TransformerCreate(transformers[last], class_desc)]

\* _create_instance, lines 415-420: the first transformer that knows the
\* class creates the carrier, else a plain JavaInstance is created
_create_instance(transformers, class_desc) ==
    LET hits == {k \in 1..Len(transformers) :
                    TransformerCreate(transformers[k], class_desc) # ""}
        first == CHOOSE k \in hits : \A x \in hits : k <= x
    IN  [Obj0 EXCEPT !.kind = "JavaInstance",
                     !.carrier = IF hits = {} THEN "JavaInstance"
                                 ELSE TransformerCreate(transformers[first], class_desc)]

\* JavaList.load_from_instance, lines 33-38
JavaList_load_from_instance(o) ==
    LET hits == {k \in 1..Len(o.inst_annotations) :
                    heap[o.inst_annotations[k].cd].name \in {NameArrayList, NameLinkedList}}
        first == CHOOSE k \in hits : \A x \in hits : k <= x
        annotations == o.inst_annotations[first].annotations
    IN  IF hits = {} THEN o
        ELSE [o EXCEPT !.elements = o.elements \o SubSeq(annotations, 2, Len(annotations))]

\* JavaPrimitiveClass.load_from_instance, lines 70-75: each value of
\* field_data, a dict, is unpacked as (field, value): a dict of two fields
\* unpacks to its two keys, any other size raises
JavaPrimitiveClass_found(o, k) ==
    /\ Len(o.field_data[k].values) = 2
    /\ heap[o.field_data[k].cd].fields[1].name = NameValue

JavaPrimitiveClass_raises(o) ==
    \E k \in 1..Len(o.field_data) :
        /\ Len(o.field_data[k].values) # 2
        /\ \A x \in 1..(k - 1) : ~JavaPrimitiveClass_found(o, x)

\* ... and self.value becomes the second key, a JavaField
JavaPrimitiveClass_load_from_instance(o) ==
    LET hits == {k \in 1..Len(o.field_data) : JavaPrimitiveClass_found(o, k)}
        first == CHOOSE k \in hits : \A x \in hits : k <= x
    IN  IF hits = {} \/ JavaPrimitiveClass_raises(o) THEN o
        ELSE [o EXCEPT !.pvalue = <<heap[o.field_data[first].cd].fields[2]>>]

\* self[key] = value on a dict kept as a sequence of entries; the keys are
\* compared as objects
dict_set(entries, key, value) ==
    IF \E k \in 1..Len(entries) : entries[k].key = key
    THEN [k \in 1..Len(entries) |->
             IF entries[k].key = key THEN [entries[k] EXCEPT !.value = value]
             ELSE entries[k]]
    ELSE Append(entries, [key |-> key, value |-> value])

\* JavaMap.load_from_instance, lines 112-115: the annotations two by two
RECURSIVE dict_set_pairs(_, _)
dict_set_pairs(entries, annotations) ==
    IF Len(annotations) < 2 THEN entries
    ELSE dict_set_pairs(dict_set(entries, annotations[1], annotations[2]),
                        SubSeq(annotations, 3, Len(annotations)))

\* JavaMap.load_from_instance, lines 110-119
JavaMap_load_from_instance(o) ==
    LET hits == {k \in 1..Len(o.inst_annotations) :
                    heap[o.inst_annotations[k].cd].name \in {NameHashMap, NameTreeMap}}
        first == CHOOSE k \in hits : \A x \in hits : k <= x
        annotations == o.inst_annotations[first].annotations
    IN  IF hits = {} THEN o
        ELSE [o EXCEPT !.entries =
                 dict_set_pairs(o.entries, SubSeq(annotations, 2, Len(annotations)))]

\* load_from_blockdata: JavaLinkedHashMap has its own (lines 129-157), the
\* other carriers have the one of JavaInstance, which returns False
load_from_blockdata_handles(o) == o.carrier = "JavaLinkedHashMap"

load_from_instance_raises(o) ==
    o.carrier \in {"JavaBool", "JavaInt"} /\ JavaPrimitiveClass_raises(o)

load_from_instance(o) ==
    CASE o.carrier = "JavaList" -> JavaList_load_from_instance(o)
      [] o.carrier \in {"JavaBool", "JavaInt"} -> JavaPrimitiveClass_load_from_instance(o)
      [] o.carrier \in {"JavaMap", "JavaLinkedHashMap"} -> JavaMap_load_from_instance(o)
      [] OTHER -> o

-----------------------------------------------------------------------------
(* _do_object, _read_class_data, _read_field_value *)

Calls(fn) == [Frame0 EXCEPT !.fn = fn, !.pc = "start"]

\* _do_object, line 427: the class description is read; `start` records the
\* number of objects created before the call
DoObject ==
    /\ At("_do_object", "start")
    /\ stack' = Call(SetTop(stack, [Top EXCEPT !.pc = "cd", !.start = Len(heap)]),
                     Calls("_read_classdesc"))
    /\ UNCHANGED <<cfgv, status, err, iov, ret, heap, contents, tblv>>

\* _do_object, lines 430-444: the handle, the carrier, its binding, and the
\* call of _read_class_data
DoObjectCd ==
    /\ At("_do_object", "cd")
    /\ Allocate
    /\ UNCHANGED <<iov, handle_maps, nresets>>
    /\ IF ret = None /\ Fam.transformers # <<>>
       THEN Fail("AttributeError") /\ UNCHANGED <<heap, handles>>
       ELSE IF _set_handle_raises(handles, NH.handle)
       THEN Fail("HandleCollision") /\ UNCHANGED <<heap, handles>>
       ELSE /\ heap' = Append(heap,
                   [_create_instance(Fam.transformers, ret) EXCEPT
                       !.classdesc = ret, !.handle = NH.handle, !.epoch = nresets])
            /\ handles' = _set_handle(handles, NH.handle, NewId)
            /\ stack' = Call(SetTop(stack, [Top EXCEPT !.pc = "data", !.cd = ret,
                                                !.handle = NH.handle,
                                                !.instance = NewId]),
                             [Calls("_read_class_data") EXCEPT !.instance = NewId])
            /\ UNCHANGED <<cfgv, status, err, ret, contents>>

\* _do_object, line 446
DoObjectReturn ==
    /\ At("_do_object", "data")
    /\ Return(Top.instance)
    /\ UNCHANGED <<cfgv, status, err, iov, heap, contents, tblv>>

\* JavaClassDesc.get_hierarchy: the ancestors of a descriptor, super class first
RECURSIVE get_hierarchy(_, _)
get_hierarchy(h, cd) ==
    IF cd = None THEN <<>> ELSE Append(get_hierarchy(h, h[cd].super_class), cd)

\* instance data in which every serializable class has annotations
has_annotations_always(desc_flags) == TRUE

\* line 472: the annotations of a serializable class are in the instance data
\* when the class has a write method
has_annotations(desc_flags) == HasFlag(desc_flags, SC_WRITE_METHOD)

\* _read_class_data, lines 453-457
ReadClassData ==
    /\ At("_read_class_data", "start")
    /\ IF heap[Top.instance].classdesc = None
       THEN Fail("AttributeError")
       ELSE /\ stack' = SetTop(stack, [Top EXCEPT !.pc = "class", !.i = 1,
                   !.classes = get_hierarchy(heap, heap[Top.instance].classdesc)])
            /\ UNCHANGED <<cfgv, status, err, ret, contents>>
    /\ UNCHANGED <<iov, heap, tblv>>

\* _read_class_data, lines 459-501: the next class of the hierarchy, or the
\* end of the loop
ReadClassDataClass ==
    /\ At("_read_class_data", "class")
    /\ LET f == Top
           o == [heap[f.instance] EXCEPT !.inst_annotations = f.annotations,
                                         !.field_data = f.all_data]
           flags == heap[f.classes[f.i]].desc_flags
       IN  IF f.i > Len(f.classes)
           THEN /\ heap' = [heap EXCEPT ![f.instance] = load_from_instance(o)]
                /\ IF load_from_instance_raises(o)
                   THEN Fail("ValueError")
                   ELSE Return(None) /\ UNCHANGED <<cfgv, status, err, contents>>
           ELSE IF HasFlag(flags, SC_SERIALIZABLE)
           THEN /\ IF HasFlag(flags, SC_EXTERNALIZABLE)
                   THEN Fail("FlagConflict")
                   ELSE /\ stack' = SetTop(stack, [f EXCEPT !.pc = "fields", !.j = 0,
                                                           !.values = <<>>])
                        /\ UNCHANGED <<cfgv, status, err, ret, contents>>
                /\ UNCHANGED heap
           ELSE IF HasFlag(flags, SC_EXTERNALIZABLE)
           THEN /\ IF HasFlag(flags, SC_BLOCK_DATA)
                   THEN IF load_from_blockdata_handles(heap[f.instance])
                        THEN /\ stack' = Call(SetTop(stack, [f EXCEPT !.pc = "loaded"]),
                                    [Calls("load_from_blockdata") EXCEPT
                                        !.instance = f.instance])
                             /\ UNCHANGED <<cfgv, status, err, ret, contents>>
                        ELSE Fail("CannotInterpretExternalizable")
                   ELSE /\ stack' = Call(SetTop(stack, [f EXCEPT !.pc = "ann"]),
                               [Calls("_read_class_annotations") EXCEPT !.pc = "loop"])
                        /\ UNCHANGED <<cfgv, status, err, ret, contents>>
                /\ UNCHANGED heap
           ELSE /\ stack' = SetTop(stack, [f EXCEPT !.i = f.i + 1])
                /\ UNCHANGED <<cfgv, status, err, ret, heap, contents>>
    /\ UNCHANGED <<iov, tblv>>

\* _read_class_data, line 494: the annotations after the block data
ReadClassDataLoaded ==
    /\ At("_read_class_data", "loaded")
    /\ stack' = Call(SetTop(stack, [Top EXCEPT !.pc = "ann"]),
                     [Calls("_read_class_annotations") EXCEPT !.pc = "loop"])
    /\ UNCHANGED <<cfgv, status, err, iov, ret, heap, contents, tblv>>

\* JavaLinkedHashMap.load_from_blockdata, lines 135-136: buckets and size
LoadFromBlockdata ==
    /\ At("load_from_blockdata", "start")
    /\ \/ FailEOF /\ UNCHANGED heap
       \/ /\ MoreInput
          /\ \E n \in Fam.sizes :
               /\ Reads(I32(0) \o I32(n), 0)
               /\ heap' = [heap EXCEPT ![Top.instance].buckets = read_int(I32(0)),
                                       ![Top.instance].size = read_int(I32(n))]
               /\ stack' = SetTop(stack, [Top EXCEPT !.pc = "entry", !.i = 0,
                                                     !.n = read_int(I32(n))])
               /\ UNCHANGED <<cfgv, status, err, ret, contents>>
    /\ UNCHANGED tblv

\* JavaLinkedHashMap.load_from_blockdata, lines 139-141: the key of the
\* next entry
LoadFromBlockdataKey ==
    /\ At("load_from_blockdata", "entry")
    /\ Top.i < Top.n
    /\ \/ FailEOF
       \/ /\ MoreTags
          /\ \E t \in Fam.keys :
               /\ Reads(U8(t), 1)
               /\ stack' = Call(SetTop(stack, [Top EXCEPT !.pc = "key"]),
                                [Calls("_read_content") EXCEPT
                                    !.type_code = read_byte(U8(t)),
                                    !.block_data = TRUE])
               /\ UNCHANGED <<cfgv, status, err, ret, contents>>
    /\ UNCHANGED <<heap, tblv>>

\* JavaLinkedHashMap.load_from_blockdata, lines 143-144: its value
LoadFromBlockdataValue ==
    /\ At("load_from_blockdata", "key")
    /\ \/ FailEOF
       \/ /\ MoreTags
          /\ \E t \in Fam.val :
               /\ Reads(U8(t), 1)
               /\ stack' = Call(SetTop(stack, [Top EXCEPT !.pc = "value", !.key = ret]),
                                [Calls("_read_content") EXCEPT
                                    !.type_code = read_byte(U8(t)),
                                    !.block_data = TRUE])
               /\ UNCHANGED <<cfgv, status, err, ret, contents>>
    /\ UNCHANGED <<heap, tblv>>

\* JavaLinkedHashMap.load_from_blockdata, line 145: self[key] = value
LoadFromBlockdataEntry ==
    /\ At("load_from_blockdata", "value")
    /\ heap' = [heap EXCEPT ![Top.instance].entries =
                    dict_set(heap[Top.instance].entries, Top.key, ret)]
    /\ stack' = SetTop(stack, [Top EXCEPT !.pc = "entry", !.i = Top.i + 1])
    /\ UNCHANGED <<cfgv, status, err, iov, ret, contents, tblv>>

\* JavaLinkedHashMap.load_from_blockdata, lines 147-157: the end of the
\* block data and the trailing 0
LoadFromBlockdataEnd ==
    /\ At("load_from_blockdata", "entry")
    /\ Top.i >= Top.n
    /\ \/ FailEOF
       \/ /\ MoreInput
          /\ \E t \in {TC_ENDBLOCKDATA, TC_NULL} :
               IF read_byte(U8(t)) # TC_ENDBLOCKDATA
               THEN Reads(U8(t), 0) /\ Fail("ValueError")
               ELSE \E final_byte \in {0, 1} :
                      /\ Reads(U8(t) \o U8(final_byte), 0)
                      /\ IF read_byte(U8(final_byte)) # 0
                         THEN Fail("ValueError")
                         ELSE Return(None) /\ UNCHANGED <<cfgv, status, err, contents>>
    /\ UNCHANGED <<heap, tblv>>

\* a record of the values that differs from the code: nothing is recorded
all_data_dropped(all_data, cd, values) == all_data

\* _read_class_data, line 470: all_data[cd] = values
all_data_record(all_data, cd, values) ==
    Append(all_data, [cd |-> cd, values |-> values])

\* _read_class_data, lines 467-478: the fields of a serializable class, then
\* its annotations if it has a write method
ReadClassDataFields ==
    /\ At("_read_class_data", "fields")
    /\ LET f == Top
           cd == heap[f.classes[f.i]]
           done == [f EXCEPT !.all_data =
                      all_data_record(f.all_data, f.classes[f.i], f.values)]
       IN  IF f.j < Len(cd.fields)
           THEN /\ stack' = Call(SetTop(stack, [f EXCEPT !.pc = "field"]),
                       [Calls("_read_field_value") EXCEPT
                           !.field_type = cd.fields[f.j + 1].type])
                /\ UNCHANGED <<cfgv, status, err, ret, contents>>
           ELSE IF ~has_annotations(cd.desc_flags)
           THEN /\ stack' = SetTop(stack, [done EXCEPT !.pc = "class", !.i = f.i + 1])
                /\ UNCHANGED <<cfgv, status, err, ret, contents>>
           ELSE IF HasFlag(cd.desc_flags, SC_ENUM)
           THEN Fail("FlagConflict")
           ELSE /\ stack' = Call(SetTop(stack, [done EXCEPT !.pc = "ann"]),
                       [Calls("_read_class_annotations") EXCEPT !.pc = "loop"])
                /\ UNCHANGED <<cfgv, status, err, ret, contents>>
    /\ UNCHANGED <<iov, heap, tblv>>

\* _read_class_data, line 468: the value of a field is stored
ReadClassDataField ==
    /\ At("_read_class_data", "field")
    /\ stack' = SetTop(stack, [Top EXCEPT !.pc = "fields", !.j = Top.j + 1,
                                          !.values = Append(Top.values, ret)])
    /\ UNCHANGED <<cfgv, status, err, iov, ret, heap, contents, tblv>>

\* annotations that are read and not kept
annotations_dropped(annotations, cd, ann) == annotations

\* lines 478 and 494: annotations[cd] = self._read_class_annotations()
annotations_record(annotations, cd, ann) ==
    Append(annotations, [cd |-> cd, annotations |-> ann])

\* _read_class_data, lines 478 and 494: the annotations of a class are stored
ReadClassDataAnn ==
    /\ At("_read_class_data", "ann")
    /\ stack' = SetTop(stack, [Top EXCEPT !.pc = "class", !.i = Top.i + 1,
             !.annotations = annotations_record(Top.annotations,
                                                Top.classes[Top.i], Top.ann)])
    /\ UNCHANGED <<cfgv, status, err, iov, ret, heap, contents, tblv>>

\* the number of bytes of a primitive value
PrimitiveWidth(field_type) ==
    CASE field_type \in {TYPE_BYTE, TYPE_BOOLEAN} -> 1
      [] field_type \in {TYPE_CHAR, TYPE_SHORT} -> 2
      [] field_type \in {TYPE_FLOAT, TYPE_INTEGER} -> 4
      [] field_type \in {TYPE_DOUBLE, TYPE_LONG} -> 8

\* the bytes of the small value v in a primitive of this type
PrimitiveBytes(field_type, v) ==
    [i \in 1..PrimitiveWidth(field_type) |->
        IF i = PrimitiveWidth(field_type) THEN v ELSE 0]

\* the value the reader decodes from the bytes of a primitive (a long is
\* kept by its low 31 bits, a float and a double by the bits of its low word)
PrimitiveValue(field_type, b) ==
    CASE field_type = TYPE_BYTE -> read_byte(b)
      [] field_type = TYPE_BOOLEAN -> IF read_ubyte(b) # 0 THEN 1 ELSE 0
      [] field_type = TYPE_CHAR -> read_ushort(b)
      [] field_type = TYPE_SHORT -> read_short(b)
      [] field_type \in {TYPE_FLOAT, TYPE_INTEGER} -> read_int(b)
      [] field_type \in {TYPE_DOUBLE, TYPE_LONG} -> long_low(b)

\* _read_field_value, lines 507-537
ReadFieldValue ==
    /\ At("_read_field_value", "start")
    /\ \/ FailEOF
       \/ /\ Top.field_type \in PRIMITIVE_TYPES
          /\ MoreInput
          /\ \E v \in Fam.prims :
               /\ Reads(PrimitiveBytes(Top.field_type, v), 0)
               /\ Return(PrimitiveValue(Top.field_type, PrimitiveBytes(Top.field_type, v)))
               /\ UNCHANGED <<cfgv, status, err, contents>>
       \/ /\ Top.field_type \in {TYPE_OBJECT, TYPE_ARRAY}
          /\ MoreTags
          /\ \E t \in Fam.val :
               /\ Reads(U8(t), 1)
               /\ IF Top.field_type = TYPE_ARRAY /\ read_byte(U8(t)) # TC_ARRAY
                  THEN Fail("UnexpectedTag")
                  ELSE /\ stack' = Call(SetTop(stack, [Top EXCEPT !.pc = "rc"]),
                              [Calls("_read_content") EXCEPT
                                  !.type_code = read_byte(U8(t)),
                                  !.block_data = FALSE])
                       /\ UNCHANGED <<cfgv, status, err, ret, contents>>
    /\ UNCHANGED <<heap, tblv>>

\* _read_field_value, lines 531-535
ReadFieldValueContent ==
    /\ At("_read_field_value", "rc")
    /\ IF IsException(ret)
       THEN RaiseExceptionRead(ret)
       ELSE Return(ret) /\ UNCHANGED <<status, err>>
    /\ UNCHANGED <<cfgv, iov, heap, contents, tblv>>

-----------------------------------------------------------------------------
(* _do_enum, _do_class, _do_array, _do_exception *)

JavaEnum(handle, cd, enum_str) ==
    [Obj0 EXCEPT !.kind = "JavaEnum", !.handle = handle, !.epoch = nresets,
                 !.classdesc = cd, !.constant = enum_str]

JavaClass(handle, cd) ==
    [Obj0 EXCEPT !.kind = "JavaClass", !.handle = handle, !.epoch = nresets,
                 !.classdesc = cd]

JavaArray(handle, epoch, cd, field_type, content) ==
    [Obj0 EXCEPT !.kind = "JavaArray", !.handle = handle, !.epoch = epoch,
                 !.classdesc = cd, !.field_type = field_type, !.content = content]

\* _do_enum, line 553
DoEnum ==
    /\ At("_do_enum", "start")
    /\ stack' = Call(SetTop(stack, [Top EXCEPT !.pc = "cd"]), Calls("_read_classdesc"))
    /\ UNCHANGED <<cfgv, status, err, iov, ret, heap, contents, tblv>>

\* _do_enum, lines 554-561: the handle, then the tag of the constant's name
DoEnumCd ==
    /\ At("_do_enum", "cd")
    /\ IF ret = None
       THEN Fail("NullEnumDescription") /\ UNCHANGED <<iov, tblv>>
       ELSE /\ Allocate
            /\ UNCHANGED <<handles, handle_maps, nresets>>
            /\ \/ FailEOF
               \/ /\ MoreTags
                  /\ \E t \in Fam.str :
                       /\ Reads(U8(t), 1)
                       /\ stack' = Call(SetTop(stack, [Top EXCEPT !.pc = "str",
                                            !.cd = ret, !.handle = NH.handle]),
                                        [Calls("_read_new_string") EXCEPT
                                            !.type_code = read_byte(U8(t))])
                       /\ UNCHANGED <<cfgv, status, err, ret, contents>>
    /\ UNCHANGED heap

\* an update of the constants that differs from the code: nothing is added
enum_constants_kept(enum_constants, value) == enum_constants

\* _do_enum, line 562: cd.enum_constants.add(enum_str.value)
enum_constants_add(enum_constants, value) == enum_constants \cup {value}

\* what _do_enum binds under the new handle: the constant's name in
\* deserialize/core.py (line 565), the enum in v2/core.py (line 603)
EnumBinding(v, enum_str, enum_obj) ==
    IF v = "deserialize" THEN enum_str ELSE enum_obj

\* _do_enum, lines 561-566 (v2: 598-604)
DoEnumStr ==
    /\ At("_do_enum", "str")
    /\ LET h1 == [heap EXCEPT ![Top.cd].enum_constants =
                                 enum_constants_add(@, heap[ret].value)]
       IN  IF _set_handle_raises(handles, Top.handle)
           THEN /\ Fail("HandleCollision")
                /\ heap' = h1
                /\ UNCHANGED handles
           ELSE /\ heap' = Append(h1, JavaEnum(Top.handle, Top.cd, ret))
                /\ handles' = _set_handle(handles, Top.handle,
                                          EnumBinding(variant, ret, NewId))
                /\ Return(NewId)
                /\ UNCHANGED <<cfgv, status, err, contents>>
    /\ UNCHANGED <<iov, handle_maps, current_handle, allocs, nresets>>

\* _do_class, line 572
DoClass ==
    /\ At("_do_class", "start")
    /\ stack' = Call(SetTop(stack, [Top EXCEPT !.pc = "cd"]), Calls("_read_classdesc"))
    /\ UNCHANGED <<cfgv, status, err, iov, ret, heap, contents, tblv>>

\* _do_class, lines 573-578
DoClassCd ==
    /\ At("_do_class", "cd")
    /\ Allocate
    /\ IF _set_handle_raises(handles, NH.handle)
       THEN Fail("HandleCollision") /\ UNCHANGED <<heap, handles>>
       ELSE /\ heap' = Append(heap, JavaClass(NH.handle, ret))
            /\ handles' = _set_handle(handles, NH.handle, NewId)
            /\ Return(NewId)
            /\ UNCHANGED <<cfgv, status, err, contents>>
    /\ UNCHANGED <<iov, handle_maps, nresets>>

\* _do_array, line 584
DoArray ==
    /\ At("_do_array", "start")
    /\ stack' = Call(SetTop(stack, [Top EXCEPT !.pc = "cd"]), Calls("_read_classdesc"))
    /\ UNCHANGED <<cfgv, status, err, iov, ret, heap, contents, tblv>>

\* _do_array, lines 585-596: the handle, the element type, the size
DoArrayCd ==
    /\ At("_do_array", "cd")
    /\ Allocate
    /\ UNCHANGED <<handles, handle_maps, nresets>>
    /\ IF ret = None
       THEN Fail("AttributeError") /\ UNCHANGED iov
       ELSE IF heap[ret].class_type = "PROXYCLASS"
       THEN Fail("TypeError") /\ UNCHANGED iov
       ELSE IF Len(heap[ret].name) < 2
       THEN Fail("InvalidArrayName") /\ UNCHANGED iov
       ELSE IF heap[ret].name[2] \notin FieldTypes
       THEN Fail("InvalidFieldType") /\ UNCHANGED iov
       ELSE \/ FailEOF
            \/ /\ MoreInput
               /\ \E n \in Fam.sizes :
                    /\ Reads(I32(n), 0)
                    /\ IF read_int(I32(n)) < 0
                       THEN Fail("InvalidArraySize")
                       ELSE /\ stack' = SetTop(stack, [Top EXCEPT !.pc = "elems",
                                   !.start = Len(stream),
                                   !.cd = ret, !.handle = NH.handle, !.epoch = nresets,
                                   !.field_type = heap[ret].name[2],
                                   !.n = read_int(I32(n)), !.contents = <<>>])
                            /\ UNCHANGED <<cfgv, status, err, ret, contents>>
    /\ UNCHANGED heap

\* a loop over the elements that differs from the code: it stops one short
array_filled_short(content, size) == Len(content) + 1 >= size

\* _do_array, line 599: `for _ in range(size)` has run `size` times
array_filled(content, size) == Len(content) >= size

\* _do_array, lines 599-600: the next element, or the array is returned;
\* `start` in the frame records the position of the size in the stream
DoArrayElems ==
    /\ At("_do_array", "elems")
    /\ IF ~array_filled(Top.contents, Top.n)
       THEN /\ stack' = Call(SetTop(stack, [Top EXCEPT !.pc = "elem"]),
                   [Calls("_read_field_value") EXCEPT !.field_type = Top.field_type])
            /\ UNCHANGED <<ret, heap>>
       ELSE /\ heap' = Append(heap, JavaArray(Top.handle, Top.epoch, Top.cd,
                                              Top.field_type, Top.contents))
            /\ Return(NewId)
    /\ UNCHANGED <<cfgv, status, err, iov, contents, tblv>>

\* _do_array, line 599: an element is stored
DoArrayElem ==
    /\ At("_do_array", "elem")
    /\ stack' = SetTop(stack, [Top EXCEPT !.pc = "elems",
                                          !.contents = Append(Top.contents, ret)])
    /\ UNCHANGED <<cfgv, status, err, iov, ret, heap, contents, tblv>>

\* _do_exception, lines 607-613: the reset, then the tag of the content
DoException ==
    /\ At("_do_exception", "start")
    /\ Reset
    /\ \/ FailEOF
       \/ /\ MoreTags
          /\ \E t \in Fam.exc :
               /\ Reads(U8(t), 1)
               /\ IF read_byte(U8(t)) = TC_RESET
                  THEN Fail("ResetInException")
                  ELSE /\ stack' = Call(SetTop(stack, [Top EXCEPT !.pc = "rc"]),
                              [Calls("_read_content") EXCEPT
                                  !.type_code = read_byte(U8(t)),
                                  !.block_data = FALSE])
                       /\ UNCHANGED <<cfgv, status, err, ret, contents>>
    /\ UNCHANGED heap

\* _do_exception, lines 614-626: the content is marked, the state is reset
DoExceptionContent ==
    /\ At("_do_exception", "rc")
    /\ IF ret = None
       THEN Fail("NullException") /\ UNCHANGED <<heap, tblv>>
       ELSE IF heap[ret].kind # "JavaInstance"
       THEN Fail("ExceptionNotInstance") /\ UNCHANGED <<heap, tblv>>
       ELSE IF heap[ret].is_exception
       THEN /\ RaiseExceptionRead(ret)
            /\ UNCHANGED <<cfgv, heap, contents, tblv>>
       ELSE /\ heap' = [heap EXCEPT ![ret].is_exception = TRUE]
            /\ Reset
            /\ Return(ret)
            /\ UNCHANGED <<cfgv, status, err, contents>>
    /\ UNCHANGED iov

-----------------------------------------------------------------------------

Next ==
    \/ RunMagic
    \/ RunVersion
    \/ RunEnd
    \/ RunLoop
    \/ RunAfter
    \/ ReadContent
    \/ ReadContentReturn
    \/ DoNull
    \/ DoReferenceRead
    \/ DoReference
    \/ ReadNewString
    \/ ReadNewStringRef
    \/ DoBlockData
    \/ ReadClassdesc
    \/ DoClassdesc
    \/ DoClassdescField
    \/ DoClassdescFieldStr
    \/ DoClassdescAnn
    \/ DoClassdescSuper
    \/ DoClassdescRef
    \/ ReadClassAnnotations
    \/ ReadClassAnnotationsItem
    \/ DoObject
    \/ DoObjectCd
    \/ DoObjectReturn
    \/ ReadClassData
    \/ ReadClassDataClass
    \/ ReadClassDataLoaded
    \/ LoadFromBlockdata
    \/ LoadFromBlockdataKey
    \/ LoadFromBlockdataValue
    \/ LoadFromBlockdataEntry
    \/ LoadFromBlockdataEnd
    \/ ReadClassDataFields
    \/ ReadClassDataField
    \/ ReadClassDataAnn
    \/ ReadFieldValue
    \/ ReadFieldValueContent
    \/ DoEnum
    \/ DoEnumCd
    \/ DoEnumStr
    \/ DoClass
    \/ DoClassCd
    \/ DoArray
    \/ DoArrayCd
    \/ DoArrayElems
    \/ DoArrayElem
    \/ DoException
    \/ DoExceptionContent

Spec == Init /\ [][Next]_vars

-----------------------------------------------------------------------------
(* Properties of the handle table *)

\* the header of every stream: magic AC ED, version 00 05
Header == U16(STREAM_MAGIC) \o U16(STREAM_VERSION)

\* the kinds of value that carry a handle
Referenceable ==
    {"JavaString", "JavaClassDesc", "JavaClass", "JavaArray", "JavaEnum",
     "JavaInstance"}

\* run is between two top-level content reads, or has returned
BetweenReads == status = "done" \/ At("run", "loop")

\* the referenceable values produced since the most recent reset
ProducedInSession ==
    {v \in 1..Len(heap) : heap[v].kind \in Referenceable /\ heap[v].epoch = nresets}


\* C1: between two top-level content reads and when run returns, the handle
\* table maps the handle of every referenceable value produced since the most
\* recent reset to that value, and no two such values carry the same handle.
C1_TableMapsEveryProducedValue ==
    BetweenReads =>
        /\ \A v \in ProducedInSession :
               /\ IsHandle(heap[v].handle)
               /\ handles[heap[v].handle] = v
        /\ \A v, w \in ProducedInSession :
               v # w => heap[v].handle # heap[w].handle

\* C2: the handles allocated since run was entered or since the most recent
\* reset are 0x7E0000, 0x7E0001, ... in this order, none skipped and none
\* returned twice, and the next one to be returned follows the last.
C2_HandlesAreConsecutive ==
    /\ \A i \in 1..Len(allocs) : allocs[i] = BASE_REFERENCE_IDX + (i - 1)
    /\ current_handle = BASE_REFERENCE_IDX + Len(allocs)

\* C2 happens: a second handle is allocated in a session that a reset began
\* after the first one
C2_Witness ==
    /\ nresets >= 2
    /\ Len(allocs) >= 2
    /\ allocs[2] = BASE_REFERENCE_IDX + 1

\* C3: between two top-level content reads and when run returns, the keys of
\* the handle table are exactly the handles allocated since the most recent
\* reset, the range [0x7E0000, 0x7E0000 + k).
C3_KeysAreTheAllocatedRange ==
    BetweenReads =>
        DOMAIN handles =
            {BASE_REFERENCE_IDX + i : i \in 0..(Len(allocs) - 1)}

-----------------------------------------------------------------------------
(* The order of the handles of an object *)

\* _do_object has just created and bound an instance: its frame is below
\* the new frame of _read_class_data
ObjectDecoded ==
    /\ At("_read_class_data", "start")
    /\ Len(stack) >= 2
    /\ stack[Len(stack) - 1].fn = "_do_object"

DoObjectFrame == stack[Len(stack) - 1]

\* the object came with a new TC_CLASSDESC descriptor: one created during the
\* call of _do_object
NewDescriptor(f) ==
    /\ f.cd # None
    /\ f.cd > f.start
    /\ heap[f.cd].class_type = "NORMALCLASS"

\* the fields of descriptor d whose type string was new (TC_STRING or
\* TC_LONGSTRING, not a reference)
NewTypeStrings(d) ==
    {k \in 1..Len(heap[d].fields) :
        heap[d].fields[k].str_type_code \in {TC_STRING, TC_LONGSTRING}}

TypeStringHandle(d, k) == heap[heap[d].fields[k].class_name].handle

\* the referenceable contents of the annotations of d decoded after d
NewAnnotations(d) ==
    {a \in {heap[d].annotations[j] : j \in 1..Len(heap[d].annotations)} :
        a # None /\ a > d /\ heap[a].kind \in Referenceable}

\* d has a super class descriptor decoded after d
NewSuper(d) == heap[d].super_class # None /\ heap[d].super_class > d

\* descriptor < type strings, in field order < annotations, super class <
\* instance
HandlesInWireOrder(d, inst) ==
    /\ heap[d].handle < heap[inst].handle
    /\ \A k \in NewTypeStrings(d) : heap[d].handle < TypeStringHandle(d, k)
    /\ \A k, l \in NewTypeStrings(d) :
           k < l => TypeStringHandle(d, k) < TypeStringHandle(d, l)
    /\ \A k \in NewTypeStrings(d), a \in NewAnnotations(d) :
           TypeStringHandle(d, k) < heap[a].handle
    /\ \A a \in NewAnnotations(d) :
           heap[d].handle < heap[a].handle /\ heap[a].handle < heap[inst].handle
    /\ NewSuper(d) =>
           /\ \A k \in NewTypeStrings(d) :
                  TypeStringHandle(d, k) < heap[heap[d].super_class].handle
           /\ heap[d].handle < heap[heap[d].super_class].handle
           /\ heap[heap[d].super_class].handle < heap[inst].handle

\* C4 as stated: whenever an object with a new descriptor is decoded, the
\* handle of the descriptor is below the handles of its new type strings,
\* which are below the handle of its super class descriptor, which is below
\* the handle of the instance.
C4_HandlesInWireOrder ==
    (ObjectDecoded /\ NewDescriptor(DoObjectFrame)) =>
        HandlesInWireOrder(DoObjectFrame.cd, DoObjectFrame.instance)

\* C4, amended: the same order, provided no reset happened between the
\* allocation of the descriptor's handle and that of the instance's handle.
C4_HandlesInWireOrderWithoutReset ==
    (/\ ObjectDecoded
     /\ NewDescriptor(DoObjectFrame)
     /\ heap[DoObjectFrame.cd].epoch = heap[DoObjectFrame.instance].epoch) =>
        HandlesInWireOrder(DoObjectFrame.cd, DoObjectFrame.instance)

\* C4 happens: an object whose new descriptor has a new type string, a new
\* string in its annotations and a new super class, all in one session
C4_Witness ==
    /\ ObjectDecoded
    /\ NewDescriptor(DoObjectFrame)
    /\ heap[DoObjectFrame.cd].epoch = heap[DoObjectFrame.instance].epoch
    /\ NewTypeStrings(DoObjectFrame.cd) # {}
    /\ NewAnnotations(DoObjectFrame.cd) # {}
    /\ NewSuper(DoObjectFrame.cd)

-----------------------------------------------------------------------------
(* References and resets *)

\* E3: the string "A", then a reference to its handle
E3Stream ==
    Header \o U8(TC_STRING) \o UTF(TextA)
           \o U8(TC_REFERENCE) \o I32(BASE_REFERENCE_IDX)

\* _do_reference is about to look up a handle that is bound
BoundReference == At("_do_reference", "lookup") /\ Top.handle \in DOMAIN handles

\* C5: a reference to a bound handle returns the value bound under it,
\* allocates no handle, creates no value and leaves the table as it is; the
\* stream E3 yields the same string twice and a table of one entry.
C5_ReferenceReturnsBoundValue ==
    /\ []((status = "done" /\ stream = E3Stream) =>
            /\ Len(contents) = 2
            /\ contents[1] = contents[2]
            /\ heap[contents[1]].kind = "JavaString"
            /\ heap[contents[1]].value = TextA
            /\ heap[contents[1]].handle = BASE_REFERENCE_IDX
            /\ DOMAIN handles = {BASE_REFERENCE_IDX})
    /\ [][BoundReference =>
            /\ status' = "running"
            /\ stack' = Pop(stack)
            /\ ret' = handles[Top.handle]
            /\ heap' = heap
            /\ handles' = handles
            /\ current_handle' = current_handle
            /\ allocs' = allocs]_vars

\* C5 happens: run returned the contents of E3
C5_Witness ==
    /\ status = "done"
    /\ stream = E3Stream
    /\ Len(contents) = 2
    /\ contents[1] = contents[2]
    /\ contents[1] # None

\* E5: the strings "A" and "B" separated by a reset
E5Stream ==
    Header \o U8(TC_STRING) \o UTF(TextA) \o U8(TC_RESET)
           \o U8(TC_STRING) \o UTF(TextB)

\* the step of run that reads TC_RESET at top level
TopLevelReset == At("run", "loop") /\ stream' = stream \o U8(TC_RESET)

\* C6: a reset at top level appends nothing to the contents, empties the
\* handle table and restarts the handles at 0x7E0000; the stream E5 yields
\* both strings, each with handle 0x7E0000, and two archived tables of one
\* string each.
C6_TopLevelReset ==
    /\ []((status = "done" /\ stream = E5Stream) =>
            /\ Len(contents) = 2
            /\ \A i \in 1..2 :
                   /\ heap[contents[i]].kind = "JavaString"
                   /\ heap[contents[i]].handle = BASE_REFERENCE_IDX
            /\ heap[contents[1]].value = TextA
            /\ heap[contents[2]].value = TextB
            /\ Len(handle_maps) = 2
            /\ \A i \in 1..2 :
                   /\ DOMAIN handle_maps[i] = {BASE_REFERENCE_IDX}
                   /\ handle_maps[i][BASE_REFERENCE_IDX] = contents[i])
    /\ [][TopLevelReset =>
            /\ contents' = contents
            /\ handles' = EmptyTable
            /\ current_handle' = BASE_REFERENCE_IDX
            /\ status' = "running"
            /\ stack' = stack]_vars

\* C6 happens: run returned the contents of E5
C6_Witness ==
    /\ status = "done"
    /\ stream = E5Stream
    /\ Len(contents) = 2
    /\ Len(handle_maps) = 2

-----------------------------------------------------------------------------
(* Objects, enums and arrays in the handle table *)

\* the calls of _read_class_data in progress
ClassDataFrames == {k \in 1..Len(stack) : stack[k].fn = "_read_class_data"}

\* C7: while the class data of an instance is read, and no reset happened
\* since its handle was allocated, the handle is bound to the instance, so
\* that a reference to it found in the class data resolves to the instance.
C7_InstanceBoundBeforeClassData ==
    status = "running" =>
        \A k \in ClassDataFrames :
            heap[stack[k].instance].epoch = nresets =>
                /\ IsHandle(heap[stack[k].instance].handle)
                /\ handles[heap[stack[k].instance].handle] = stack[k].instance
                /\ (At("_do_reference", "lookup")
                      /\ Top.handle = heap[stack[k].instance].handle) =>
                       _do_reference(handles, Top.handle) = stack[k].instance

\* C7 happens: a reference read among the class data of an instance has
\* returned that instance
C7_Witness ==
    /\ At("_read_content", "ret")
    /\ Top.type_code = TC_REFERENCE
    /\ \E k \in ClassDataFrames :
           /\ stack[k].instance = ret
           /\ heap[ret].epoch = nresets

\* the values of one kind produced since the most recent reset
ProducedOfKind(kind) == {v \in ProducedInSession : heap[v].kind = kind}

\* C8 as stated: in both variants the handle of an enum is bound to the enum.
C8_EnumHandleBindsEnum ==
    \A e \in ProducedOfKind("JavaEnum") :
        /\ IsHandle(heap[e].handle)
        /\ handles[heap[e].handle] = e

\* C9: the name of the constant of every enum is among the constants of its
\* descriptor, and the constants of a descriptor only grow.
C9_EnumConstantsGrow ==
    /\ [](\A e \in 1..Len(heap) :
            heap[e].kind = "JavaEnum" =>
                heap[heap[e].constant].value \in heap[heap[e].classdesc].enum_constants)
    /\ [][\A d \in 1..Len(heap) :
            heap[d].enum_constants \subseteq heap'[d].enum_constants]_vars

\* C9 happens: two enums of one descriptor, the second through a reference to
\* the descriptor, with two different constants
C9_Witness ==
    \E e1, e2 \in 1..Len(heap) :
        /\ heap[e1].kind = "JavaEnum"
        /\ heap[e2].kind = "JavaEnum"
        /\ e1 < e2
        /\ heap[e1].classdesc = heap[e2].classdesc
        /\ heap[heap[e1].constant].value # heap[heap[e2].constant].value
        /\ heap[heap[e1].classdesc].enum_constants =
               {heap[heap[e1].constant].value, heap[heap[e2].constant].value}

\* C10 as stated: the handle of an array is bound to the array.
C10_ArrayHandleBindsArray ==
    \A a \in ProducedOfKind("JavaArray") :
        /\ IsHandle(heap[a].handle)
        /\ handles[heap[a].handle] = a

-----------------------------------------------------------------------------
(* Arrays *)

\* the calls of _do_array that have read the size
ArrayFrames ==
    {k \in 1..Len(stack) : stack[k].fn = "_do_array" /\ stack[k].pc \in {"elems", "elem"}}

\* the size on the wire of the array frame f reads
WireSize(f) == read_int(SubSeq(stream, f.start + 1, f.start + 4))

\* the i-th int on the wire after the size
WireInt(f, i) == read_int(SubSeq(stream, f.start + 4 * i + 1, f.start + 4 * i + 4))

\* C11: an array has as many elements as the size read from the wire, in
\* wire order; a negative size fails the parse, and so does the end of the
\* input before the last element.
C11_ArrayHasDeclaredSize ==
    /\ [](status = "running" =>
            \A k \in ArrayFrames :
                /\ WireSize(stack[k]) >= 0
                /\ stack[k].n = WireSize(stack[k])
                /\ Len(stack[k].contents) <= WireSize(stack[k]))
    /\ [][(At("_do_array", "elems") /\ Len(heap') = Len(heap) + 1) =>
            /\ status' = "running"
            /\ ret' = Len(heap')
            /\ heap'[ret'].kind = "JavaArray"
            /\ Len(heap'[ret'].content) = WireSize(Top)
            /\ Top.field_type = TYPE_INTEGER =>
                   \A i \in 1..WireSize(Top) : heap'[ret'].content[i] = WireInt(Top, i)]_vars
    /\ [][(/\ At("_do_array", "cd")
           /\ Len(stream') = Len(stream) + 4
           /\ read_int(SubSeq(stream', Len(stream) + 1, Len(stream) + 4)) < 0) =>
            status' = "failed" /\ err' = "InvalidArraySize" /\ heap' = heap]_vars
    /\ [][(/\ status = "running"
           /\ eof' /\ ~eof
           /\ \E k \in 1..Len(stack) : stack[k].fn = "_do_array") =>
            status' = "failed" /\ err' = "EOFError" /\ heap' = heap]_vars

\* C11 happens: an array of the two ints 0 and 1 has been returned
C11_Witness ==
    /\ At("_read_content", "ret")
    /\ Top.type_code = TC_ARRAY
    /\ ret # None
    /\ heap[ret].kind = "JavaArray"
    /\ heap[ret].field_type = TYPE_INTEGER
    /\ heap[ret].content = <<0, 1>>

-----------------------------------------------------------------------------
(* The class data of an instance *)

\* the descriptor cd of heap h has SC_SERIALIZABLE set
Serializable(h, cd) == (h[cd].desc_flags \div SC_SERIALIZABLE) % 2 = 1

\* the serializable ancestors of instance inst, super class first
SerializableAncestors(h, inst) ==
    SelectSeq(get_hierarchy(h, h[inst].classdesc), LAMBDA cd : Serializable(h, cd))

\* field_data has one entry per serializable ancestor, and no other, each
\* with one value per field the ancestor declares
FieldDataMatchesHierarchy(h, inst) ==
    /\ [k \in 1..Len(h[inst].field_data) |-> h[inst].field_data[k].cd] =
           SerializableAncestors(h, inst)
    /\ \A k \in 1..Len(h[inst].field_data) :
           Len(h[inst].field_data[k].values) = Len(h[h[inst].field_data[k].cd].fields)

\* _read_class_data is about to leave its loop over the hierarchy
ClassDataComplete == At("_read_class_data", "class") /\ Top.i > Len(Top.classes)

\* C12: when the class data of an instance has been read to completion, its
\* field_data has an entry for exactly the ancestors that are serializable,
\* and each entry has one value per field its descriptor declares; this
\* stays so afterwards.
C12_FieldDataMatchesHierarchy ==
    /\ [][(ClassDataComplete /\ status' = "running") =>
            FieldDataMatchesHierarchy(heap', Top.instance)]_vars
    /\ [](\A v \in 1..Len(heap) :
            (heap[v].kind = "JavaInstance" /\ heap[v].field_data # <<>>) =>
                FieldDataMatchesHierarchy(heap, v))

\* C12 happens: an instance has been read whose hierarchy has a class that
\* is not serializable and a serializable class with a field
C12_Witness ==
    \E v \in 1..Len(heap) :
        /\ heap[v].kind = "JavaInstance"
        /\ Len(get_hierarchy(heap, heap[v].classdesc)) = 2
        /\ Len(heap[v].field_data) = 1
        /\ Len(heap[v].field_data[1].values) = 1
        /\ FieldDataMatchesHierarchy(heap, v)

-----------------------------------------------------------------------------
(* The header *)

\* the two 16-bit values at the start of the input, once read
FirstShort == read_ushort(SubSeq(stream, 1, 2))
SecondShort == read_ushort(SubSeq(stream, 3, 4))

\* the parser is as __init__ left it: no _reset, no tag byte read, no handle
\* allocated, nothing decoded
Untouched ==
    /\ nresets = 0
    /\ ntags = 0
    /\ allocs = <<>>
    /\ current_handle = BASE_REFERENCE_IDX
    /\ handles = EmptyTable
    /\ handle_maps = <<>>
    /\ heap = <<>>

\* C13: run fails with the invalid-magic error when the first 16-bit value
\* is not 0xACED, and otherwise with the invalid-version error when the
\* second is not 5; in both cases no _reset has run, no tag byte has been
\* read and no handle has been allocated.
C13_HeaderIsCheckedFirst ==
    /\ (Len(stream) >= 2 /\ FirstShort # STREAM_MAGIC) =>
           status = "failed" /\ err = "InvalidMagic" /\ Len(stream) = 2 /\ Untouched
    /\ (Len(stream) >= 4 /\ FirstShort = STREAM_MAGIC /\ SecondShort # STREAM_VERSION) =>
           status = "failed" /\ err = "InvalidVersion" /\ Len(stream) = 4 /\ Untouched
    /\ err = "InvalidMagic" => Len(stream) = 2 /\ FirstShort # STREAM_MAGIC
    /\ err = "InvalidVersion" =>
           Len(stream) = 4 /\ FirstShort = STREAM_MAGIC /\ SecondShort # STREAM_VERSION
    /\ (nresets > 0 \/ ntags > 0 \/ allocs # <<>>) =>
           Len(stream) >= 4 /\ FirstShort = STREAM_MAGIC /\ SecondShort = STREAM_VERSION

\* C13 happens: a magic that is right followed by a version that is wrong
C13_Witness ==
    /\ status = "failed"
    /\ err = "InvalidVersion"
    /\ stream = U16(STREAM_MAGIC) \o U16(STREAM_VERSION + 1)

-----------------------------------------------------------------------------
(* The list run returns *)

\* the content items run has read to their end
ItemsRead == IF stack[1].pc = "after" THEN stack[1].n - 1 ELSE stack[1].n

\* x is what run appends for the value v that _read_content returned
AppendedFor(h, x, v) ==
    \/ x = v
    \/ /\ x # None
       /\ h[x].kind = "ExceptionState"
       /\ h[x].exception_object = v

\* C14: after a valid header run collects one element per top-level content
\* item, in the order of the stream, and none for a top-level RESET; the
\* header alone gives the empty list and the header followed by TC_NULL
\* gives a list holding the one null.
C14_OneElementPerItem ==
    /\ [](Running => Len(contents) = ItemsRead)
    /\ [][contents' # contents =>
            /\ At("run", "after")
            /\ Len(contents') = Len(contents) + 1
            /\ SubSeq(contents', 1, Len(contents)) = contents
            /\ AppendedFor(heap', contents'[Len(contents')], ret)]_vars
    /\ [][(At("run", "loop") /\ nresets' # nresets) =>
            contents' = contents /\ stack' = stack /\ status' = "running"]_vars
    /\ [][status' = "done" =>
            At("run", "loop") /\ contents' = contents /\ Len(contents) = Top.n]_vars
    /\ [](status = "done" /\ stream = Header => contents = <<>>)
    /\ [](status = "done" /\ stream = Header \o U8(TC_NULL) => contents = <<None>>)

\* C14 happens: run returns two elements for a null, a string and a RESET
C14_Witness ==
    /\ status = "done"
    /\ nresets = 2
    /\ Len(contents) = 2
    /\ contents[1] = None
    /\ contents[2] # None
    /\ heap[contents[2]].kind = "JavaString"

-----------------------------------------------------------------------------
(* A top-level exception frame *)

\* the bytes an ExceptionState holds
stream_data(x) == SubSeq(stream, heap[x].stream_start + 1, heap[x].stream_end)

\* the content item run has just read began with the EXCEPTION tag
ExceptionItemRead ==
    /\ At("run", "after")
    /\ stream[Top.start + 1] = TC_EXCEPTION
    /\ IsException(ret)

\* the steps from the end of the inner instance to the append in run
ReturningSteps ==
    \/ At("_do_object", "data")
    \/ At("_do_exception", "rc")
    \/ At("_read_content", "ret")
    \/ At("run", "after")

\* C15: a top-level EXCEPTION frame around an instance gives one
\* ExceptionState; the instance it wraps is flagged as an exception, its
\* bytes run from the EXCEPTION tag byte to the end of the inner instance,
\* and the next top-level content is read from the byte that follows.
C15_ExceptionFrameIsCaptured ==
    /\ [][ExceptionItemRead =>
            /\ status' = "running"
            /\ contents' = Append(contents, Len(heap'))
            /\ Len(heap') = Len(heap) + 1
            /\ heap'[Len(heap')].kind = "ExceptionState"
            /\ heap'[Len(heap')].exception_object = ret
            /\ heap'[ret].kind = "JavaInstance"
            /\ heap'[ret].is_exception
            /\ heap'[Len(heap')].stream_start = Top.start
            /\ heap'[Len(heap')].stream_end = Len(stream)]_vars
    /\ [][ReturningSteps => stream' = stream]_vars
    /\ [](\A x \in 1..Len(heap) : heap[x].kind = "ExceptionState" =>
            /\ heap[x].stream_start < heap[x].stream_end
            /\ heap[x].stream_end <= Len(stream)
            /\ heap[heap[x].exception_object].is_exception)
    /\ [][(At("run", "loop") /\ Len(stack') = 2 /\ contents # <<>>
             /\ contents[Len(contents)] # None
             /\ heap[contents[Len(contents)]].kind = "ExceptionState") =>
            /\ stack'[1].start = Len(stream)
            /\ \A p \in heap[contents[Len(contents)]].stream_end + 1 .. Len(stream) :
                   stream[p] = TC_RESET]_vars

\* C15 happens: an EXCEPTION frame around an instance was captured from its
\* tag byte on, and the tag of the next content is the byte after the frame
C15_Witness ==
    /\ At("_read_content", "start")
    /\ Len(stack) = 2
    /\ Len(contents) = 1
    /\ contents[1] # None
    /\ heap[contents[1]].kind = "ExceptionState"
    /\ heap[contents[1]].stream_start = 4
    /\ stream_data(contents[1])[1] = TC_EXCEPTION
    /\ stream_data(contents[1])[2] = TC_OBJECT
    /\ heap[heap[contents[1]].exception_object].kind = "JavaInstance"
    /\ heap[heap[contents[1]].exception_object].is_exception
    /\ stack[1].start = heap[contents[1]].stream_end

-----------------------------------------------------------------------------
(* Exception frames at any depth *)

\* x is an ExceptionState around the instance v
Wraps(x, v) ==
    /\ x # None
    /\ heap[x].kind = "ExceptionState"
    /\ heap[x].exception_object = v

\* the instances an EXCEPTION frame was decoded around
ExceptionInstances == {v \in 1..Len(heap) : heap[v].is_exception}

\* run is between two content items, or has returned
BetweenItems == status = "done" \/ At("run", "loop")

\* C16: an ExceptionRead never leaves run, and a content item in which an
\* EXCEPTION frame was decoded, at any depth, gives an ExceptionState around
\* the exception instance: run never collects the enclosing object, nor the
\* exception instance unwrapped.
C16_ExceptionReachesTopLevel ==
    /\ err # "ExceptionRead"
    /\ BetweenItems =>
          /\ \A v \in ExceptionInstances :
                \E k \in 1..Len(contents) : Wraps(contents[k], v)
          /\ \A k \in 1..Len(contents) : contents[k] \notin ExceptionInstances
          /\ \A k \in 1..Len(contents) :
                (contents[k] # None /\ heap[contents[k]].kind = "ExceptionState") =>
                    heap[contents[k]].exception_object \in ExceptionInstances

-----------------------------------------------------------------------------
(* Lists *)

\* the instance v is of class java.util.ArrayList or java.util.LinkedList
IsListInstance(v) ==
    /\ heap[v].kind = "JavaInstance"
    /\ heap[v].classdesc # None
    /\ heap[heap[v].classdesc].name \in {NameArrayList, NameLinkedList}

\* the places of the annotations recorded for the class of v
OwnAnnotations(v) ==
    {k \in 1..Len(heap[v].inst_annotations) :
        heap[v].inst_annotations[k].cd = heap[v].classdesc}

\* C17: once the class data of an ArrayList or LinkedList has been read, the
\* items of the list are the annotations recorded for its class without the
\* first of them, in the same order.
C17_ListHoldsItsAnnotations ==
    \A v \in 1..Len(heap) :
        IsListInstance(v) =>
            \A k \in OwnAnnotations(v) :
                LET annotations == heap[v].inst_annotations[k].annotations
                IN  /\ heap[v].carrier = "JavaList"
                    /\ heap[v].elements = SubSeq(annotations, 2, Len(annotations))

-----------------------------------------------------------------------------
(* The choice of the carrier *)

\* the carrier the transformers ts give for the descriptor cd, asked one
\* after the other
RECURSIVE FirstCarrier(_, _)
FirstCarrier(ts, cd) ==
    IF ts = <<>> THEN "JavaInstance"
    ELSE IF TransformerCreate(Head(ts), cd) # "" THEN TransformerCreate(Head(ts), cd)
    ELSE FirstCarrier(Tail(ts), cd)

\* _do_object creates the instance
InstanceCreated == At("_do_object", "cd") /\ Len(heap') = Len(heap) + 1

\* C18: the carrier of a new instance is the one of the first registered
\* transformer that knows its descriptor, whatever the later transformers
\* would give, and a plain instance when none knows it; the descriptor of the
\* carrier is the one just read and its handle the one just allocated.
C18_FirstTransformerWins ==
    [][InstanceCreated =>
         LET o == heap'[Len(heap')]
         IN  /\ o.kind = "JavaInstance"
             /\ o.carrier = FirstCarrier(Fam.transformers, ret)
             /\ o.classdesc = ret
             /\ o.handle = current_handle
             /\ allocs' = Append(allocs, o.handle)
             /\ handles'[o.handle] = Len(heap')]_vars

\* C18 happens: both transformers know the class and the first one, the
\* transformer of the caller, has created the carrier
C18_Witness ==
    /\ Fam.transformers = <<"UserTransformer", "DefaultObjectTransformer">>
    /\ \E v \in 1..Len(heap) :
          /\ heap[v].kind = "JavaInstance"
          /\ heap[heap[v].classdesc].name = NameArrayList
          /\ TypeMapper(NameArrayList) = "JavaList"
          /\ heap[v].carrier = "UserCarrier"
          /\ heap[v].handle = BASE_REFERENCE_IDX + 1

-----------------------------------------------------------------------------
(* Boxed primitive values *)

\* the instance v is of class java.lang.Boolean, Integer or Long
IsBoxed(h, v) ==
    /\ h[v].kind = "JavaInstance"
    /\ h[v].classdesc # None
    /\ h[h[v].classdesc].name \in {NameLangBoolean, NameLangInteger, NameLangLong}

\* the values read for the fields of v named `value`
ValuesRead(h, v) ==
    {h[v].field_data[p[1]].values[p[2]] :
        p \in {q \in (1..Len(h[v].field_data)) \X (1..Len(h[h[v].classdesc].fields)) :
                 /\ h[v].field_data[q[1]].cd = h[v].classdesc
                 /\ h[h[v].classdesc].fields[q[2]].name = NameValue}}

\* C19: an instance of java.lang.Boolean, Integer or Long gets a scalar
\* carrier from the default transformer; reading its class data does not
\* fail, and afterwards the value of the carrier is the value read for the
\* field named `value`.
C19_BoxedValueIsExtracted ==
    /\ [](\A v \in 1..Len(heap) :
            (IsBoxed(heap, v) /\ Fam.transformers = <<"DefaultObjectTransformer">>) =>
                heap[v].carrier \in {"JavaBool", "JavaInt"})
    /\ [][(ClassDataComplete /\ IsBoxed(heap, Top.instance)
             /\ Fam.transformers = <<"DefaultObjectTransformer">>) =>
            /\ status' = "running"
            /\ \A x \in ValuesRead(heap', Top.instance) :
                  heap'[Top.instance].pvalue = <<x>>]_vars

-----------------------------------------------------------------------------
(* Conflicting flags *)

\* the descriptors decoded whose flags have both SC_SERIALIZABLE (0x02) and
\* SC_EXTERNALIZABLE (0x04)
ConflictingDescriptors ==
    {v \in 1..Len(heap) :
        /\ heap[v].kind = "JavaClassDesc"
        /\ (heap[v].desc_flags \div 2) % 2 = 1
        /\ (heap[v].desc_flags \div 4) % 2 = 1}

\* C20: a run that has decoded a class descriptor whose flags have both
\* SC_SERIALIZABLE and SC_EXTERNALIZABLE does not return: it fails, and with
\* the flag conflict error when it fails on that descriptor.
C20_FlagConflictAborts ==
    /\ [](status = "done" => ConflictingDescriptors = {})
    /\ [][(At("_read_class_data", "class") /\ Top.i <= Len(Top.classes)
             /\ Top.classes[Top.i] \in ConflictingDescriptors) =>
            status' = "failed" /\ err' = "FlagConflict"]_vars

-----------------------------------------------------------------------------
(* Block data where it is not allowed *)

BlockDataTags == {TC_BLOCKDATA, TC_BLOCKDATALONG}

\* the function that called the _read_content frame at place k of the stack
CallerOf(k) == stack[k - 1].fn

\* _read_content refuses block data when it is not allowed, reading nothing
\* and leaving the handle table as it is, and dispatches it when allowed
BlockDataDispatch ==
    /\ [][(At("_read_content", "start") /\ ~Top.block_data
             /\ Top.type_code \in BlockDataTags) =>
            /\ status' = "failed"
            /\ err' = "UnexpectedBlockData"
            /\ UNCHANGED <<stream, heap, handles, handle_maps, current_handle, allocs>>]_vars
    /\ [][(At("_read_content", "start") /\ Top.block_data
             /\ Top.type_code \in BlockDataTags) =>
            /\ status' = "running"
            /\ stack'[Len(stack')].fn = "_do_block_data"]_vars

\* block data is allowed at top level, in annotations and in the entries of
\* a map written as block data, and nowhere else
BlockDataPositions ==
    [](status = "running" =>
         \A k \in 2..Len(stack) :
            stack[k].fn = "_read_content" =>
               /\ CallerOf(k) \in {"run", "_read_class_annotations", "load_from_blockdata",
                                   "_read_field_value", "_do_exception"}
               /\ stack[k].block_data =
                     (CallerOf(k) \notin {"_read_field_value", "_do_exception"}))

\* _read_field_value reads the tag t of a value of type field_types
ValueTagRead(field_types, tags) ==
    /\ At("_read_field_value", "start")
    /\ Top.field_type \in field_types
    /\ Len(stream') = Len(stream) + 1
    /\ stream'[Len(stream')] \in tags

\* the tag just read is handed to _read_content, which may not take block data
HandedToReadContent ==
    /\ status' = "running"
    /\ stack'[Len(stack')].fn = "_read_content"
    /\ stack'[Len(stack')].pc = "start"
    /\ ~stack'[Len(stack')].block_data
    /\ stack'[Len(stack')].type_code = stream'[Len(stream')]

\* C21 as stated: a block data tag at the place of an object or array value
\* (a field, an element of an array) and inside an exception frame goes to
\* _read_content with block data not allowed, which fails with
\* UnexpectedBlockData, reading nothing more and leaving the handle table.
C21_BlockDataRejected ==
    /\ BlockDataDispatch
    /\ BlockDataPositions
    /\ [][ValueTagRead({TYPE_OBJECT, TYPE_ARRAY}, BlockDataTags) => HandedToReadContent]_vars

\* C21, amended: as above for a value of object type; for a value of array
\* type a block data tag is refused by _read_field_value itself, as any tag
\* other than TC_ARRAY is, before _read_content is called: the parse fails
\* there too, with the unexpected tag error.
C21_BlockDataRejectedForObjects ==
    /\ BlockDataDispatch
    /\ BlockDataPositions
    /\ [][ValueTagRead({TYPE_OBJECT}, BlockDataTags) => HandedToReadContent]_vars
    /\ [][ValueTagRead({TYPE_ARRAY}, BlockDataTags) =>
            /\ status' = "failed"
            /\ err' = "UnexpectedTag"
            /\ UNCHANGED <<heap, handles, handle_maps, current_handle, allocs>>]_vars

\* C21 happens: the element of an array of objects is a block data
C21_Witness ==
    /\ status = "failed"
    /\ err = "UnexpectedBlockData"
    /\ Top.fn = "_read_content"
    /\ Len(stack) >= 3
    /\ stack[Len(stack) - 1].fn = "_read_field_value"
    /\ stack[Len(stack) - 2].fn = "_do_array"
    /\ stream[Len(stream)] = TC_BLOCKDATA

-----------------------------------------------------------------------------
(* Tags without a handler *)

\* the bytes 0x70..0x77 and 0x7A..0x7E: NULL, REFERENCE, CLASSDESC, OBJECT,
\* STRING, ARRAY, CLASS, BLOCKDATA, BLOCKDATALONG, EXCEPTION, LONGSTRING,
\* PROXYCLASSDESC, ENUM
BytesWithHandler == (112..119) \cup (122..126)

\* C22: _read_content fails with UnknownTag for every tag byte other than
\* the thirteen that have a handler, allocating no handle, and dispatches
\* those; so TC_ENDBLOCKDATA at top level, and TC_RESET or TC_ENDBLOCKDATA
\* at the place of a field value, fail the parse.
C22_UnknownTagFails ==
    /\ [](\A b \in 0..255 : read_byte(<<b>>) \in HandledTags <=> b \in BytesWithHandler)
    /\ [][(At("_read_content", "start") /\ Top.type_code \notin BytesWithHandler) =>
            /\ status' = "failed"
            /\ err' = "UnknownTag"
            /\ UNCHANGED <<stream, heap, handles, handle_maps, current_handle, allocs>>]_vars
    /\ [][(At("_read_content", "start") /\ Top.type_code \in BytesWithHandler
             /\ (Top.block_data \/ Top.type_code \notin BlockDataTags)) =>
            /\ status' = "running"
            /\ stack'[Len(stack')].fn = HandlerOf(Top.type_code)]_vars
    /\ [][(At("run", "loop") /\ Len(stream') = Len(stream) + 1
             /\ stream'[Len(stream')] = TC_ENDBLOCKDATA) =>
            /\ stack'[Len(stack')].fn = "_read_content"
            /\ stack'[Len(stack')].type_code = TC_ENDBLOCKDATA]_vars
    /\ [][ValueTagRead({TYPE_OBJECT, TYPE_ARRAY}, {TC_RESET, TC_ENDBLOCKDATA}) =>
            status' = "failed" \/ HandedToReadContent]_vars

\* C22 happens: the tag of a field value is TC_RESET
C22_Witness ==
    /\ status = "failed"
    /\ err = "UnknownTag"
    /\ Top.fn = "_read_content"
    /\ Top.type_code = TC_RESET
    /\ Len(stack) >= 3
    /\ stack[Len(stack) - 1].fn = "_read_field_value"
    /\ stack[Len(stack) - 2].fn = "_read_class_data"
    /\ allocs = <<BASE_REFERENCE_IDX, BASE_REFERENCE_IDX + 1, BASE_REFERENCE_IDX + 2>>

-----------------------------------------------------------------------------
(* The declared length of a block data and of a string *)

\* the bytes the step reads
BytesRead == SubSeq(stream', Len(stream) + 1, Len(stream'))

\* the length the step reads ahead of a block data or a string
DeclaredLength ==
    CASE Top.type_code = TC_BLOCKDATA -> read_ubyte(SubSeq(BytesRead, 1, 1))
      [] Top.type_code = TC_BLOCKDATALONG -> read_int(SubSeq(BytesRead, 1, 4))
      [] Top.type_code = TC_STRING -> read_ushort(SubSeq(BytesRead, 1, 2))
      [] Top.type_code = TC_LONGSTRING -> long_low(SubSeq(BytesRead, 1, 8))

\* the step creates a BlockData or a JavaString from bytes of the input
ContentCreated ==
    /\ \/ At("_do_block_data", "start")
       \/ At("_read_new_string", "start") /\ Top.type_code # TC_REFERENCE
    /\ Len(heap') = Len(heap) + 1

\* C23: a BlockData and a String hold exactly as many bytes as the length
\* read ahead of them declares; when the input ends before that the parse
\* fails, it does not return a shorter content.
C23_DeclaredLengthIsRead ==
    [][ContentCreated => Len(heap'[Len(heap')].value) = DeclaredLength]_vars


\* the long read ahead of a long string
LongLength == SubSeq(BytesRead, 1, 8)
\* the step reads the length of a TC_LONGSTRING
LongStringRead ==
    /\ At("_read_new_string", "start")
    /\ Top.type_code = TC_LONGSTRING
    /\ Len(BytesRead) >= 8
\* the long is in 0..65535
LongIsShort == \A i \in 1..6 : LongLength[i] = 0
\* the String a TC_STRING makes of the bytes after the length
ShortStringOf(data) == JavaString(current_handle, data).value

\* C24: a TC_LONGSTRING whose long length is negative or above 2147483647
\* fails with the invalid string length error, and no String is created or
\* bound; a long length in 0..65535 is accepted: the String is made of the
\* bytes that follow as a short string is, and bound to the new handle
C24_LongStringLength ==
    [][LongStringRead =>
        /\ (long_negative(LongLength) \/ long_above_int(LongLength)) =>
              /\ status' = "failed"
              /\ err' = "InvalidStringLength"
              /\ heap' = heap
              /\ handles' = handles
        /\ LongIsShort =>
              /\ status' = status
              /\ Len(heap') = Len(heap) + 1
              /\ heap'[Len(heap')].kind = "JavaString"
              /\ heap'[Len(heap')].value =
                    ShortStringOf(SubSeq(BytesRead, 9, Len(BytesRead)))
              /\ Len(BytesRead) - 8 <= read_ushort(SubSeq(LongLength, 7, 8))
              /\ handles' = (current_handle :> Len(heap')) @@ handles]_vars

\* a long string of length 2147483648 was refused after a string was bound
C24_Witness ==
    /\ status = "failed"
    /\ err = "InvalidStringLength"
    /\ Len(stream) >= 9
    /\ SubSeq(stream, Len(stream) - 8, Len(stream)) =
          <<TC_LONGSTRING, 0, 0, 0, 0, 128, 0, 0, 0>>
    /\ \E h \in DOMAIN handles : heap[handles[h]].kind = "JavaString"

\* the step passes the handle h to _set_handle
Binds(h) ==
    \/ /\ At("_do_classdesc", "super") \/ At("_do_enum", "str")
       /\ h = Top.handle
    \/ /\ \/ At("_do_class", "cd")
          \/ At("_do_object", "cd") /\ err' # "AttributeError"
          \/ /\ At("_read_new_string", "start")
             /\ Top.type_code \in {TC_STRING, TC_LONGSTRING}
             /\ err' \notin {"EOFError", "InvalidStringLength"}
       /\ h = current_handle
\* the step fails with the handle collision error
Collides == status' = "failed" /\ err' = "HandleCollision"

\* C25: a step that binds a handle the live table holds fails with the
\* handle collision error and leaves the table as it is; no step changes
\* the value bound to a handle that stays in the table
C25_NoBindingIsOverwritten ==
    [][/\ \A h \in DOMAIN handles : Binds(h) => Collides
       /\ Collides => handles' = handles /\ \E h \in DOMAIN handles : Binds(h)
       /\ \A h \in DOMAIN handles \cap DOMAIN handles' : handles'[h] = handles[h]]_vars

\* the descriptor of an object was bound to the first handle after a RESET
\* among its annotations, and the object, given the same handle, collided
C25_Witness ==
    /\ status = "failed"
    /\ err = "HandleCollision"
    /\ Top.fn = "_do_object"
    /\ BASE_REFERENCE_IDX \in DOMAIN handles
    /\ heap[handles[BASE_REFERENCE_IDX]].kind = "JavaClassDesc"
    /\ allocs[Len(allocs)] = BASE_REFERENCE_IDX

\* the step looks up the handle of a TC_REFERENCE
ReferenceLookup == At("_do_reference", "lookup")
\* a table archived by a session reset holds the handle
Archived(h) == \E i \in DOMAIN handle_maps : h \in DOMAIN handle_maps[i]

\* C26: a TC_REFERENCE to a handle that the live table does not hold fails
\* with the unknown handle error and returns nothing, whether or not a table
\* archived by a session reset holds the handle
C26_UnboundReferenceFails ==
    [][ReferenceLookup /\ Top.handle \notin DOMAIN handles =>
          /\ status' = "failed"
          /\ err' = "UnknownHandle"
          /\ ret' = ret
          /\ stack' = stack]_vars

\* a reference to a handle bound before the latest session reset, and not
\* since, has failed
C26_Witness ==
    /\ status = "failed"
    /\ err = "UnknownHandle"
    /\ Top.fn = "_do_reference"
    /\ Archived(Top.handle)
    /\ nresets > 0
    /\ Top.handle \notin DOMAIN handles

\* the step checks the value a TC_REFERENCE gave where a String is expected
StringExpected == At("_read_new_string", "ref")
\* ... and where a class descriptor is expected
DescriptorExpected == At("_do_classdesc", "ref")
\* the step fails with the reference type mismatch error, returning nothing
Mismatch ==
    /\ status' = "failed"
    /\ err' = "ReferenceTypeMismatch"
    /\ ret' = ret
    /\ stack' = stack

\* C27: a TC_REFERENCE read where a String is expected fails with the
\* reference type mismatch error when the value bound is not a String, and
\* one read where a class descriptor is expected fails with it when the
\* value bound is not a class descriptor; the value is not returned
C27_MistypedReferenceFails ==
    [][/\ StringExpected /\ heap[ret].kind # "JavaString" => Mismatch
       /\ DescriptorExpected /\ heap[ret].kind # "JavaClassDesc" => Mismatch]_vars

\* the descriptor of an object was a reference to a String
C27_Witness ==
    /\ status = "failed"
    /\ err = "ReferenceTypeMismatch"
    /\ Top.fn = "_do_classdesc"
    /\ Len(stack) > 2
    /\ "_do_object" \in {stack[Len(stack) - 1].fn, stack[Len(stack) - 2].fn}
    /\ heap[ret].kind = "JavaString"

\* the frames of the descriptors whose annotations or super class are being
\* read, and whose handle was allocated since the latest session reset
OpenDescriptors ==
    {k \in DOMAIN stack :
        /\ stack[k].fn = "_do_classdesc"
        /\ stack[k].pc \in {"ann", "super"}
        /\ stack[k].epoch = nresets}
\* the step looks up a reference to the handle of the open descriptor k
OwnHandleLookup(k) ==
    /\ At("_do_reference", "lookup")
    /\ k \in OpenDescriptors
    /\ Top.handle = stack[k].handle

\* C28: a TC_REFERENCE read among the class annotations or in the super
\* class chain of a descriptor, to the handle allocated for that
\* descriptor, gives the descriptor and does not fail
C28_OwnHandleResolves ==
    [][\A k \in DOMAIN stack :
          OwnHandleLookup(k) =>
            /\ status' = status
            /\ ret' = stack[k].cd]_vars

\* _do_object has read TC_NULL where the descriptor of the object is
NullDescriptorOfObject == At("_do_object", "cd") /\ ret = None

\* C29: a TC_OBJECT whose descriptor is TC_NULL is refused when the
\* descriptor has been read: the parse fails with no handle allocated for
\* the instance, no instance created and nothing bound
C29_NullDescriptorIsRefused ==
    [][NullDescriptorOfObject =>
          /\ status' = "failed"
          /\ current_handle' = current_handle
          /\ heap' = heap
          /\ handles' = handles]_vars

\* _read_class_data is at work on the instance data of an object
ClassDataFrame == Top.fn = "_read_class_data" /\ Top.pc # "start"
\* the ancestor whose data is being read
Ancestor == heap[Top.classes[Top.i]]
\* the ancestors are in super-first order, and end with the class cd
SuperFirst(classes, cd) ==
    /\ classes # <<>>
    /\ heap[classes[1]].super_class = None
    /\ \A i \in 1..(Len(classes) - 1) : heap[classes[i + 1]].super_class = classes[i]
    /\ classes[Len(classes)] = cd
\* the step calls fn from the frame on top
CallsFrom(fn) == Len(stack') = Len(stack) + 1 /\ stack'[Len(stack')].fn = fn
\* the step moves on to the next ancestor
NextAncestor == Len(stack') = Len(stack) /\ stack'[Len(stack)].i # Top.i
\* the ancestor is read as a serializable class
ReadAsSerializable ==
    /\ Top.i <= Len(Top.classes)
    /\ HasFlag(Ancestor.desc_flags, SC_SERIALIZABLE)
\* the values of all the fields of the ancestor have been read
FieldsRead == Len(Top.values) = Len(Ancestor.fields)

\* C30: _read_class_data goes through the ancestors in super-first order,
\* one after the other; in a serializable ancestor every read of a field
\* value is that of the next declared field, the annotation list is read
\* only after the last field and only if SC_WRITE_METHOD is set, and the
\* next ancestor is begun only after the fields and, if SC_WRITE_METHOD is
\* set, the annotation list
C30_InstanceDataOrder ==
    [][ClassDataFrame =>
        /\ SuperFirst(Top.classes, heap[Top.instance].classdesc)
        /\ NextAncestor => stack'[Len(stack)].i = Top.i + 1
        /\ CallsFrom("_read_field_value") =>
              /\ ReadAsSerializable
              /\ ~FieldsRead
              /\ stack'[Len(stack')].field_type =
                    Ancestor.fields[Len(Top.values) + 1].type
              /\ Len(Top.annotations) < Top.i
        /\ (CallsFrom("_read_class_annotations") /\ ReadAsSerializable) =>
              /\ FieldsRead
              /\ HasFlag(Ancestor.desc_flags, SC_WRITE_METHOD)
        /\ (NextAncestor /\ ReadAsSerializable) =>
              /\ FieldsRead
              /\ HasFlag(Ancestor.desc_flags, SC_WRITE_METHOD) => Top.pc = "ann"]_vars

\* the value of the second field of the second ancestor is being read, after
\* its first field, of another type, and after the fields and the annotation
\* list of the first ancestor
C30_Witness ==
    /\ Len(stack) > 1
    /\ Top.fn = "_read_field_value"
    /\ LET f == stack[Len(stack) - 1]
       IN  /\ f.fn = "_read_class_data"
           /\ f.i = 2
           /\ Len(f.all_data) > 0
           /\ heap[f.classes[1]].fields # <<>>
           /\ HasFlag(heap[f.classes[1]].desc_flags, SC_WRITE_METHOD)
           /\ Len(f.annotations) = 1
           /\ Len(f.values) = 1
           /\ heap[f.classes[2]].fields[1].type # heap[f.classes[2]].fields[2].type

\* the ancestor being read is one whose instance data has an annotation list
AnnotatedAncestor ==
    /\ Top.i <= Len(Top.classes)
    /\ \/ /\ HasFlag(Ancestor.desc_flags, SC_SERIALIZABLE)
          /\ HasFlag(Ancestor.desc_flags, SC_WRITE_METHOD)
       \/ HasFlag(Ancestor.desc_flags, SC_EXTERNALIZABLE)
\* the ancestor being read is neither serializable nor externalizable
PlainAncestor ==
    /\ Top.pc = "class"
    /\ Top.i <= Len(Top.classes)
    /\ ~HasFlag(Ancestor.desc_flags, SC_SERIALIZABLE)
    /\ ~HasFlag(Ancestor.desc_flags, SC_EXTERNALIZABLE)
\* the frame of _read_class_data after a step that leaves it on top
SameFrame == stack'[Len(stack)]
\* the instance is of a serializable class without fields, write method or
\* super class
EmptySerializable(inst) ==
    LET cd == heap[heap[inst].classdesc]
    IN  /\ cd.desc_flags = SC_SERIALIZABLE
        /\ cd.fields = <<>>
        /\ cd.super_class = None

\* C31: _read_class_data reads an annotation list, and records one, only for
\* an ancestor that is serializable with a write method or externalizable,
\* and records the list it has read; for an ancestor that is neither
\* serializable nor externalizable it reads nothing and records nothing; an
\* instance of a serializable class with no field and no super class ends
\* with an empty entry for its class in field_data and with no annotations
C31_AnnotationsOnlyWhereWritten ==
    [][ClassDataFrame =>
        /\ CallsFrom("_read_class_annotations") => AnnotatedAncestor
        /\ (Len(stack') = Len(stack) /\ SameFrame.annotations # Top.annotations) =>
              /\ AnnotatedAncestor
              /\ Top.pc = "ann"
        /\ (Top.pc = "ann" /\ Len(stack') = Len(stack)) =>
              SameFrame.annotations =
                 Append(Top.annotations,
                        [cd |-> Top.classes[Top.i], annotations |-> Top.ann])
        /\ PlainAncestor =>
              /\ stream' = stream
              /\ heap' = heap
              /\ SameFrame = [Top EXCEPT !.i = Top.i + 1]
        /\ (ClassDataComplete /\ status' = "running"
              /\ EmptySerializable(Top.instance)) =>
              /\ heap'[Top.instance].field_data =
                    <<[cd |-> heap[Top.instance].classdesc, values |-> <<>>]>>
              /\ heap'[Top.instance].inst_annotations = <<>>]_vars

\* an instance of a serializable class with no field and no super class has
\* been read and returned at top level
C31_Witness ==
    /\ status = "done"
    /\ Len(contents) = 1
    /\ contents[1] # None
    /\ heap[contents[1]].kind = "JavaInstance"
    /\ EmptySerializable(contents[1])
    /\ heap[contents[1]].field_data =
          <<[cd |-> heap[contents[1]].classdesc, values |-> <<>>]>>
    /\ heap[contents[1]].inst_annotations = <<>>

\* the session has just been reset: nothing is bound, the counter is at its base
FreshSession(tbl, cur) == tbl = EmptyTable /\ cur = BASE_REFERENCE_IDX
\* the step is _do_exception returning to its caller
ExceptionReturns ==
    /\ At("_do_exception", "rc")
    /\ status' = "running"
    /\ Len(stack') = Len(stack) - 1
\* the inner content of an exception is dispatched
InnerContent ==
    /\ At("_read_content", "start")
    /\ CallerOf(Len(stack)) = "_do_exception"

\* C32: _do_exception resets the session before it reads the inner tag;
\* when it returns, its result is an instance marked as an exception, the
\* live table is empty and the counter is back at 0x7E0000; an inner
\* TC_RESET, an inner null, inner block data and an inner content that is
\* not an instance make the parse fail
C32_ExceptionResetsTwice ==
    [][/\ At("_do_exception", "start") =>
             /\ FreshSession(handles', current_handle')
             /\ (Len(stream') > Len(stream)
                   /\ stream'[Len(stream')] = TC_RESET) => status' = "failed"
       /\ ExceptionReturns =>
             /\ ret' # None
             /\ heap'[ret'].kind = "JavaInstance"
             /\ heap'[ret'].is_exception
             /\ FreshSession(handles', current_handle')
       /\ (At("_do_exception", "rc")
             /\ (ret = None \/ heap[ret].kind # "JavaInstance")) => status' = "failed"
       /\ (InnerContent /\ Top.type_code \in BlockDataTags) => status' = "failed"]_vars

\* _do_exception has returned an instance whose class descriptor and whose
\* own handle were bound while it was read
C32_Witness ==
    /\ status = "running"
    /\ At("_read_content", "ret")
    /\ Top.type_code = TC_EXCEPTION
    /\ ret # None
    /\ heap[ret].is_exception
    /\ handles = EmptyTable
    /\ handle_maps # <<>>
    /\ Cardinality(DOMAIN handle_maps[Len(handle_maps)]) = 2

\* the step of run that resets the session once the header is accepted
RunEntryReset ==
    /\ At("run", "version")
    /\ status' = "running"
    /\ Len(stream') > Len(stream)
\* the step that reads TC_RESET in a class annotation list
AnnotationReset ==
    /\ At("_read_class_annotations", "loop")
    /\ stream' = stream \o U8(TC_RESET)
\* the steps that reset the session
SessionReset ==
    \/ RunEntryReset
    \/ TopLevelReset
    \/ AnnotationReset
    \/ At("_do_exception", "start")
    \/ ExceptionReturns

\* C33 as stated: every session reset appends the live table to the archive
\* as one snapshot and clears the table
C33_EveryResetArchives ==
    [][SessionReset =>
          /\ handle_maps' = Append(handle_maps, handles)
          /\ handles' = EmptyTable]_vars

\* C33, amended: a session reset that finds the live table holding at least
\* one binding appends the table as one snapshot to the archive, a session
\* reset that finds it empty leaves the archive as it is, and both leave the
\* live table empty
C33_ResetArchivesWhatIsBound ==
    [][SessionReset =>
          /\ handle_maps' = IF handles = EmptyTable THEN handle_maps
                            ELSE Append(handle_maps, handles)
          /\ handles' = EmptyTable]_vars

\* a TC_RESET among the annotations of a class has archived the String that
\* was bound before it
C33_Witness ==
    /\ At("_read_class_annotations", "loop")
    /\ stream[Len(stream)] = TC_RESET
    /\ handles = EmptyTable
    /\ Len(handle_maps) = 1
    /\ \E h \in DOMAIN handle_maps[1] : heap[handle_maps[1][h]].kind = "JavaString"

\* C34: every handle the live table holds was allocated since the latest
\* session reset: it is at least 0x7E0000 and below the counter, so that no
\* later allocation returns a handle that is bound
C34_BoundHandlesBelowCounter ==
    \A h \in DOMAIN handles : BASE_REFERENCE_IDX <= h /\ h < current_handle

\* the values the live table binds
LiveValues == {handles[h] : h \in DOMAIN handles}
\* the values the archived tables bind
ArchivedValues ==
    UNION {{handle_maps[i][h] : h \in DOMAIN handle_maps[i]} : i \in DOMAIN handle_maps}

\* C35: no value bound in the live handle table is an instance marked as an
\* exception
C35_NoExceptionInLiveTable == LiveValues \cap ExceptionInstances = {}

\* an instance was bound, marked as an exception and archived by the reset
\* that followed, and the live table has bindings again
C35_Witness ==
    /\ ArchivedValues \cap ExceptionInstances # {}
    /\ handles # EmptyTable

\* run has returned or failed
Terminated == status \in {"done", "failed"}
\* the step reads at least one byte
Consumes == Len(stream') > Len(stream)
\* the heads of the loops and of the recursive reads: the top-level loop, the
\* class annotation loop, the loop over the declared fields, the read of a
\* field value or array element, of a class descriptor and of an exception
LoopHead ==
    \/ At("run", "loop")
    \/ At("_read_class_annotations", "loop")
    \/ At("_do_classdesc", "field")
    \/ At("_read_field_value", "start")
    \/ At("_read_classdesc", "start")
    \/ At("_do_exception", "start")

\* the steps are taken as long as one is possible
LiveSpec == Spec /\ WF_vars(Next)

\* C36: every iteration of a loop and every recursive read consumes at
\* least one byte, or ends run; run terminates, returning or failing
C36_RunTerminates ==
    /\ [][LoopHead => Consumes \/ status' \in {"done", "failed"}]_vars
    /\ <>Terminated

\* the input ended in the loop over the elements of an array, after an
\* element was read, and run failed
C36_Witness ==
    /\ status = "failed"
    /\ err = "EOFError"
    /\ eof
    /\ Len(stack) > 1
    /\ Top.fn = "_read_field_value"
    /\ CallerOf(Len(stack)) = "_do_array"
    /\ stack[Len(stack) - 1].contents # <<>>

-----------------------------------------------------------------------------
(* C37: the two variants on the same input *)

\* what a parse has done so far, as its caller and the input can see it
Observed ==
    [status |-> status, err |-> err, stream |-> stream, eof |-> eof,
     contents |-> contents, heap |-> heap, handles |-> handles,
     handle_maps |-> handle_maps, current_handle |-> current_handle,
     allocs |-> allocs, nresets |-> nresets]

OtherVariant(v) == CHOOSE w \in Variants : w # v

\* the families whose inputs are parsed by both variants: strings, references
\* and resets, descriptors, objects, resets in annotations, enums, arrays,
\* exception frames, lists, transformers, boxed primitives, top-level
\* descriptors, classes with a super class
Replayed == {1, 2, 3, 4, 5, 6, 7, 11, 12, 13, 14, 15, 17}

\* once a parse has ended, the parser of the other variant is constructed
\* over the same input
RunOtherVariant ==
    /\ ~replaying
    /\ Terminated
    /\ family \in Replayed
    /\ replaying' = TRUE
    /\ parsed' = Observed
    /\ variant' = OtherVariant(variant)
    /\ status' = "running"
    /\ err' = ""
    /\ stream' = <<>>
    /\ eof' = FALSE
    /\ ntags' = 0
    /\ stack' = <<[Frame0 EXCEPT !.fn = "run", !.pc = "magic"]>>
    /\ ret' = None
    /\ heap' = <<>>
    /\ handles' = EmptyTable
    /\ handle_maps' = <<>>
    /\ current_handle' = BASE_REFERENCE_IDX
    /\ contents' = <<>>
    /\ allocs' = <<>>
    /\ nresets' = 0
    /\ UNCHANGED <<family, time>>

\* the second parse is given the bytes the first one was given: it reads
\* what the first one read and finds the input ended where the first one did
SameInput ==
    replaying =>
        /\ Len(stream') <= Len(parsed.stream)
        /\ stream' = SubSeq(parsed.stream, 1, Len(stream'))
        /\ eof' \/ err' = "EOFError" =>
              /\ parsed.eof \/ parsed.err = "EOFError"
              /\ stream' = parsed.stream

PairInit == Init /\ variant = "deserialize"
PairNext ==
    \/ Next /\ SameInput
    \/ RunOtherVariant
PairSpec == PairInit /\ [][PairNext]_vars

\* no enum was created
NoEnum(h) == \A i \in 1..Len(h) : h[i].kind # "JavaEnum"
\* s is a leading part of t
Leads(s, t) == Len(s) <= Len(t) /\ s = SubSeq(t, 1, Len(s))

-----------------------------------------------------------------------------
(* C38: the archive *)

\* the step appends a snapshot to the archive
Archives == Len(handle_maps') > Len(handle_maps)

\* C38: a step leaves every archived snapshot as it is and appends at most one
\* snapshot; the snapshot it appends is the live table as it is before the
\* step, and that table holds at least one entry; so no snapshot is empty.
C38_ArchiveOnlyGrows ==
    [][/\ Leads(handle_maps, handle_maps')
       /\ Len(handle_maps') <= Len(handle_maps) + 1
       /\ Archives => /\ DOMAIN handles # {}
                      /\ handle_maps'[Len(handle_maps')] = handles
       /\ \A i \in DOMAIN handle_maps' : DOMAIN handle_maps'[i] # {}]_vars

\* run has returned after a reset archived one table, a later bind filled the
\* next one and the exit of run archived that
C38_Witness ==
    /\ status = "done"
    /\ Len(handle_maps) >= 2
    /\ handle_maps[1] # handle_maps[2]
    /\ nresets >= 2

-----------------------------------------------------------------------------
(* C39: the local time and the zone offset of the java.time carrier *)

LOCAL_TIME_TYPE == 4
ZONE_OFFSET_TYPE == 8
OFFSET_TIME_TYPE == 9
\* a type byte time_handlers has no entry for
UnhandledType == 15

\* read(data, ">b") and read(data, ">i"): the value unpacked from the first
\* size bytes of data and the rest of data; struct.error if data is shorter
read(data, size) ==
    IF Len(data) < size
    THEN [raised |-> "struct.error", value |-> 0, data |-> data]
    ELSE [raised |-> "",
          value |-> IF size = 1 THEN read_byte(SubSeq(data, 1, 1))
                    ELSE read_int(SubSeq(data, 1, 4)),
          data |-> SubSeq(data, size + 1, Len(data))]

\* Python's ~x on an integer
invert(x) == -x - 1

\* what a handler leaves: the fields it sets and the data it returns
TimeOf(t, r, hour, minute, second, nano) ==
    IF r.raised # "" THEN [t EXCEPT !.raised = r.raised]
    ELSE [t EXCEPT !.hour = <<hour>>, !.minute = <<minute>>,
                   !.second = <<second>>, !.nano = <<nano>>, !.data = r.data]

\* a decoding that differs from the code: the four values are always read
do_local_time_in_full(t) ==
    LET h == read(t.data, 1)
        m == read(h.data, 1)
        s == read(m.data, 1)
        n == read(s.data, 4)
    IN  IF h.raised # "" THEN TimeOf(t, h, 0, 0, 0, 0)
        ELSE IF m.raised # "" THEN TimeOf(t, m, 0, 0, 0, 0)
        ELSE IF s.raised # "" THEN TimeOf(t, s, 0, 0, 0, 0)
        ELSE TimeOf(t, n, h.value, m.value, s.value, n.value)

\* do_local_time, lines 310-333
do_local_time(t) ==
    LET h == read(t.data, 1)
        m == read(h.data, 1)
        s == read(m.data, 1)
        n == read(s.data, 4)
    IN  IF h.raised # "" THEN TimeOf(t, h, 0, 0, 0, 0)
        ELSE IF h.value < 0 THEN TimeOf(t, h, invert(h.value), 0, 0, 0)
        ELSE IF m.raised # "" THEN TimeOf(t, m, 0, 0, 0, 0)
        ELSE IF m.value < 0 THEN TimeOf(t, m, h.value, invert(m.value), 0, 0)
        ELSE IF s.raised # "" THEN TimeOf(t, s, 0, 0, 0, 0)
        ELSE IF s.value < 0
             THEN TimeOf(t, s, h.value, m.value, invert(s.value), 0)
        ELSE TimeOf(t, n, h.value, m.value, s.value, n.value)

\* a decoding that differs from the code: 127 is an offset like any other
do_zone_offset_of_quarters(t) ==
    LET o == read(t.data, 1)
    IN  IF o.raised # "" THEN [t EXCEPT !.raised = o.raised]
        ELSE [t EXCEPT !.offset = <<o.value * 900>>, !.data = o.data]

\* do_zone_offset, lines 346-352
do_zone_offset(t) ==
    LET o == read(t.data, 1)
        i == read(o.data, 4)
    IN  IF o.raised # "" THEN [t EXCEPT !.raised = o.raised]
        ELSE IF o.value = 127
             THEN IF i.raised # "" THEN [t EXCEPT !.raised = i.raised]
                  ELSE [t EXCEPT !.offset = <<i.value>>, !.data = i.data]
        ELSE [t EXCEPT !.offset = <<o.value * 900>>, !.data = o.data]

\* where a call goes on: "failed" once it has raised
Then(t, pc) == [t EXCEPT !.pc = IF t.raised # "" THEN "failed" ELSE pc]

\* what the parser is while a carrier is loaded on its own
parserv == <<variant, family, replaying, parsed, status, err, iov, stack, ret,
             heap, contents, tblv>>

\* load_from_instance, lines 286-294: the type byte selects the handler; a
\* type without a handler is logged and the carrier is left as it is
TimeLoad ==
    /\ time.pc = "load_from_instance"
    /\ LET r == read(time.data, 1)
           handler == CASE r.value = LOCAL_TIME_TYPE -> "do_local_time"
                        [] r.value = ZONE_OFFSET_TYPE -> "do_zone_offset"
                        [] r.value = OFFSET_TIME_TYPE -> "do_offset_time"
                        [] OTHER -> "done"
       IN  time' = IF r.raised # ""
                   THEN Then([time EXCEPT !.raised = r.raised], "")
                   ELSE [time EXCEPT !.type = r.value, !.data = r.data,
                                     !.pc = handler]
    /\ UNCHANGED parserv

\* do_local_time, called by load_from_instance or by do_offset_time (line 359)
TimeLocalTime ==
    /\ time.pc \in {"do_local_time", "do_offset_time"}
    /\ time' = Then(do_local_time(time),
                    IF time.pc = "do_offset_time" THEN "do_zone_offset"
                    ELSE "done")
    /\ UNCHANGED parserv

\* do_zone_offset, called by load_from_instance or by do_offset_time (line 360)
TimeZoneOffset ==
    /\ time.pc = "do_zone_offset"
    /\ time' = Then(do_zone_offset(time), "done")
    /\ UNCHANGED parserv

\* the bytes of the inputs: hours, minutes and seconds as they are and
\* complemented, nanoseconds, offsets in quarters of an hour and in seconds
Plain == {0, 23, 59}
Complemented == {128, 232, 255}
Nanos == {I32(0), I32(999999999), I32(-1)}
Quarters == {0, 4, 126, 128, 184, 255}
Seconds == {I32(3601), I32(-64800), I32(127)}

LocalTimes ==
    {U8(h) : h \in Complemented}
    \cup {U8(h) \o U8(m) : h \in Plain, m \in Complemented}
    \cup {U8(h) \o U8(m) \o U8(s) : h \in Plain, m \in Plain, s \in Complemented}
    \cup {U8(h) \o U8(m) \o U8(s) \o n :
             h \in Plain, m \in Plain, s \in Plain, n \in Nanos}
ZoneOffsets ==
    {U8(o) : o \in Quarters} \cup {U8(127) \o i : i \in Seconds}

\* the whole contents of the block data, and every leading part of them
TimeContents ==
    {U8(LOCAL_TIME_TYPE) \o l : l \in LocalTimes}
    \cup {U8(ZONE_OFFSET_TYPE) \o z : z \in ZoneOffsets}
    \cup {U8(OFFSET_TIME_TYPE) \o l \o z : l \in LocalTimes, z \in ZoneOffsets}
    \cup {U8(UnhandledType) \o z : z \in ZoneOffsets}
TimeInputs ==
    UNION {{SubSeq(c, 1, k) : k \in 0..Len(c)} : c \in TimeContents}

TimeInit ==
    /\ variant = "deserialize"
    /\ family = 1
    /\ status = "running"
    /\ err = ""
    /\ stream = <<>>
    /\ eof = FALSE
    /\ ntags = 0
    /\ stack = <<>>
    /\ ret = None
    /\ heap = <<>>
    /\ handles = EmptyTable
    /\ handle_maps = <<>>
    /\ current_handle = BASE_REFERENCE_IDX
    /\ contents = <<>>
    /\ allocs = <<>>
    /\ nresets = 0
    /\ replaying = FALSE
    /\ parsed = NoRun
    /\ \E d \in TimeInputs :
         time = [NoTime EXCEPT !.pc = "load_from_instance", !.data = d]

TimeNext ==
    \/ TimeLoad
    \/ TimeLocalTime
    \/ TimeZoneOffset
TimeSpec == TimeInit /\ [][TimeNext]_vars

\* a byte as a signed number, four bytes as a signed number
Signed(b) == IF b >= 128 THEN b - 256 ELSE b
Signed32(d, k) ==
    Signed(d[k]) * 16777216 + d[k + 1] * 65536 + d[k + 2] * 256 + d[k + 3]
\* the rest of d after its first k bytes
After(d, k) == SubSeq(d, k + 1, Len(d))
\* the carrier holds this time of day
TimeIs(t, hour, minute, second, nano) ==
    /\ t.hour = <<hour>>
    /\ t.minute = <<minute>>
    /\ t.second = <<second>>
    /\ t.nano = <<nano>>

\* do_local_time returns, do_zone_offset returns
LocalTimeReturns ==
    time.pc \in {"do_local_time", "do_offset_time"} /\ time'.raised = ""
ZoneOffsetReturns ==
    time.pc = "do_zone_offset" /\ time'.raised = ""

\* C39: when do_local_time returns, a negative hour byte b has given hour ~b,
\* minute, second and nano 0, and one byte is consumed; else a negative minute
\* byte has given minute ~b, second and nano 0, and two bytes are consumed;
\* else a negative second byte has given second ~b and nano 0, and three
\* bytes are consumed; else nano is the 32-bit number that follows and seven
\* bytes are consumed. When do_zone_offset returns, the offset is 900 times
\* the offset byte and one byte is consumed, unless the byte is 127: then the
\* offset is the 32-bit number that follows and five bytes are consumed.
C39_CompactTime ==
    [][/\ LocalTimeReturns =>
            LET d == time.data IN
            IF Signed(d[1]) < 0
            THEN /\ TimeIs(time', -Signed(d[1]) - 1, 0, 0, 0)
                 /\ time'.data = After(d, 1)
            ELSE IF Signed(d[2]) < 0
            THEN /\ TimeIs(time', d[1], -Signed(d[2]) - 1, 0, 0)
                 /\ time'.data = After(d, 2)
            ELSE IF Signed(d[3]) < 0
            THEN /\ TimeIs(time', d[1], d[2], -Signed(d[3]) - 1, 0)
                 /\ time'.data = After(d, 3)
            ELSE /\ TimeIs(time', d[1], d[2], d[3], Signed32(d, 4))
                 /\ time'.data = After(d, 7)
       /\ ZoneOffsetReturns =>
            LET d == time.data IN
            IF Signed(d[1]) = 127
            THEN /\ time'.offset = <<Signed32(d, 2)>>
                 /\ time'.data = After(d, 5)
            ELSE /\ time'.offset = <<Signed(d[1]) * 900>>
                 /\ time'.data = After(d, 1)]_vars

\* an offset time is decoded: 23 hours, the minute byte 0xE8 (minute 23),
\* and an offset given in seconds after the byte 127
C39_Witness ==
    /\ time.pc = "done"
    /\ time.type = OFFSET_TIME_TYPE
    /\ TimeIs(time, 23, 23, 0, 0)
    /\ time.offset = <<3601>>
    /\ time.data = <<>>
====
